---- MODULE Spec2Model ----
(***************************************************************************)
(* The Fireworks code-completion provider: prompt construction under a     *)
(* character budget (createPrompt) and the dispatch and aggregation of n   *)
(* concurrent sample fetches (generateCompletions).                        *)
(*                                                                         *)
(* Text is modelled character by character: a string is a sequence of      *)
(* one-character strings, so that lengths, line splitting and prefix       *)
(* tests are computed as the JavaScript string methods compute them.       *)
(* An optional value (undefined / null) is a sequence of length 0 or 1.    *)
(***************************************************************************)
EXTENDS Integers, Sequences, FiniteSets, TLC

\* ------------------------------------------------------------------------
\* JavaScript string and array methods used by the provider
\* ------------------------------------------------------------------------

\* undefined / null, and a present value
Undefined == <<>>
Some(x) == <<x>>

\* String.prototype.startsWith
StartsWith(s, p) == Len(s) >= Len(p) /\ SubSeq(s, 1, Len(p)) = p

\* String.prototype.endsWith
EndsWith(s, p) == Len(s) >= Len(p) /\ SubSeq(s, Len(s) - Len(p) + 1, Len(s)) = p

\* the least element of a non-empty set of integers
MinOf(S) == CHOOSE i \in S : \A j \in S : i <= j

\* String.prototype.indexOf for a one-character needle: 0-based, -1 if absent
IndexOf(s, c) ==
    LET hits == {i \in 1..Len(s) : s[i] = c}
    IN  IF hits = {} THEN -1 ELSE MinOf(hits) - 1

\* String.prototype.slice(from) for 0 <= from
Slice(s, from) == SubSeq(s, from + 1, Len(s))

\* String.prototype.split for a one-character separator; "" splits to [""]
RECURSIVE SplitFrom(_, _, _)
SplitFrom(s, c, start) ==
    LET hits == {i \in start..Len(s) : s[i] = c}
    IN  IF hits = {}
        THEN <<SubSeq(s, start, Len(s))>>
        ELSE <<SubSeq(s, start, MinOf(hits) - 1)>> \o SplitFrom(s, c, MinOf(hits) + 1)

Split(s, c) == SplitFrom(s, c, 1)

\* Array.prototype.join; [] joins to ""
RECURSIVE Join(_, _)
Join(parts, sep) ==
    IF parts = <<>> THEN <<>>
    ELSE IF Len(parts) = 1 THEN parts[1]
    ELSE parts[1] \o sep \o Join(Tail(parts), sep)

\* Array.prototype.slice(from, to) on an array, 0-based, to exclusive
ArraySlice(a, from, to) == SubSeq(a, from + 1, to)

WhiteSpace == {" ", "\n", "\t", "\r"}

\* String.prototype.trimStart / trimEnd / trim
RECURSIVE TrimStart(_)
TrimStart(s) == IF s # <<>> /\ Head(s) \in WhiteSpace THEN TrimStart(Tail(s)) ELSE s

RECURSIVE TrimEnd(_)
TrimEnd(s) ==
    IF s # <<>> /\ s[Len(s)] \in WhiteSpace THEN TrimEnd(SubSeq(s, 1, Len(s) - 1)) ELSE s

Trim(s) == TrimEnd(TrimStart(s))

NL == <<"\n">>

\* String.prototype.includes
Includes(s, sub) ==
    \E i \in 0..(Len(s) - Len(sub)) : SubSeq(s, i + 1, i + Len(sub)) = sub

\* String.prototype.indexOf for a string needle: 0-based, -1 if absent
StringIndexOf(s, sub) ==
    IF Includes(s, sub)
    THEN MinOf({i \in 0..(Len(s) - Len(sub)) : SubSeq(s, i + 1, i + Len(sub)) = sub})
    ELSE -1

\* String.prototype.replace with a string pattern: the first occurrence only
Replace(s, pattern, replacement) ==
    IF StringIndexOf(s, pattern) = -1 THEN s
    ELSE SubSeq(s, 1, StringIndexOf(s, pattern)) \o replacement
            \o SubSeq(s, StringIndexOf(s, pattern) + Len(pattern) + 1, Len(s))

\* ------------------------------------------------------------------------
\* Model identifiers and string constants of the provider
\* ------------------------------------------------------------------------

\* the character U+0060 (grave accent), which a string literal here cannot hold
Backtick == "U+0060"

M_starcoder_16b ==
    <<"s", "t", "a", "r", "c", "o", "d", "e", "r", "-", "1", "6", "b">>

M_starcoder_7b ==
    <<"s", "t", "a", "r", "c", "o", "d", "e", "r", "-", "7", "b">>

M_starcoder_3b ==
    <<"s", "t", "a", "r", "c", "o", "d", "e", "r", "-", "3", "b">>

M_starcoder_1b ==
    <<"s", "t", "a", "r", "c", "o", "d", "e", "r", "-", "1", "b">>

M_llama_code_7b ==
    <<"l", "l", "a", "m", "a", "-", "c", "o", "d", "e", "-", "7", "b">>

M_llama_code_13b ==
    <<"l", "l", "a", "m", "a", "-", "c", "o", "d", "e", "-", "1", "3", "b">>

M_llama_code_13b_instruct ==
    <<"l", "l", "a", "m", "a", "-", "c", "o", "d", "e", "-", "1", "3", "b", "-", "i", "n",
      "s", "t", "r", "u", "c", "t">>

M_mistral_7b_instruct_4k ==
    <<"m", "i", "s", "t", "r", "a", "l", "-", "7", "b", "-", "i", "n", "s", "t", "r", "u",
      "c", "t", "-", "4", "k">>

M_starcoder_hybrid ==
    <<"s", "t", "a", "r", "c", "o", "d", "e", "r", "-", "h", "y", "b", "r", "i", "d">>

STARCODER_PREFIX ==
    <<"s", "t", "a", "r", "c", "o", "d", "e", "r">>

LLAMA_CODE_PREFIX ==
    <<"l", "l", "a", "m", "a", "-", "c", "o", "d", "e">>

EOT_STARCODER ==
    <<"<", "|", "e", "n", "d", "o", "f", "t", "e", "x", "t", "|", ">">>

EOT_LLAMA_CODE ==
    <<" ", "<", "E", "O", "T", ">">>

PathHeader ==
    <<"P", "a", "t", "h", ":", " ">>

DocIntroHead ==
    <<"A", "d", "d", "i", "t", "i", "o", "n", "a", "l", " ", "d", "o", "c", "u", "m", "e",
      "n", "t", "a", "t", "i", "o", "n", " ", "f", "o", "r", " ", Backtick>>

DocIntroTail ==
    <<Backtick, ":", "\n", "\n">>

RefIntroHead ==
    <<"H", "e", "r", "e", " ", "i", "s", " ", "a", " ", "r", "e", "f", "e", "r", "e", "n",
      "c", "e", " ", "s", "n", "i", "p", "p", "e", "t", " ", "o", "f", " ", "c", "o", "d",
      "e", " ", "f", "r", "o", "m", " ">>

RefIntroTail ==
    <<":", "\n", "\n">>

DefaultComment ==
    <<"/", "/", " ">>

FimFilename ==
    <<"<", "f", "i", "l", "e", "n", "a", "m", "e", ">">>

FimPrefix ==
    <<"<", "f", "i", "m", "_", "p", "r", "e", "f", "i", "x", ">">>

FimSuffix ==
    <<"<", "f", "i", "m", "_", "s", "u", "f", "f", "i", "x", ">">>

FimMiddle ==
    <<"<", "f", "i", "m", "_", "m", "i", "d", "d", "l", "e", ">">>

LlamaPre ==
    <<"<", "P", "R", "E", ">", " ">>

LlamaSuf ==
    <<" ", "<", "S", "U", "F", ">">>

LlamaMid ==
    <<" ", "<", "M", "I", "D", ">">>

OPENING_CODE_TAG ==
    <<"<", "C", "O", "D", "E", "5", "7", "1", "1", ">">>

CLOSING_CODE_TAG ==
    <<"<", "/", "C", "O", "D", "E", "5", "7", "1", "1", ">">>

InstHead ==
    <<"<", "s", ">", "[", "I", "N", "S", "T", "]", " ", "B", "e", "l", "o", "w", " ", "i",
      "s", " ", "t", "h", "e", " ", "c", "o", "d", "e", " ", "f", "r", "o", "m", " ", "f",
      "i", "l", "e", " ", "p", "a", "t", "h", " ">>

InstBody ==
    <<".", " ", "R", "e", "v", "i", "e", "w", " ", "t", "h", "e", " ", "c", "o", "d", "e",
      " ", "o", "u", "t", "s", "i", "d", "e", " ", "t", "h", "e", " ", "X", "M", "L", " ",
      "t", "a", "g", "s", " ", "t", "o", " ", "d", "e", "t", "e", "c", "t", " ", "t", "h",
      "e", " ", "f", "u", "n", "c", "t", "i", "o", "n", "a", "l", "i", "t", "y", ",", " ",
      "f", "o", "r", "m", "a", "t", "s", ",", " ", "s", "t", "y", "l", "e", ",", " ", "p",
      "a", "t", "t", "e", "r", "n", "s", ",", " ", "a", "n", "d", " ", "l", "o", "g", "i",
      "c", "s", " ", "i", "n", " ", "u", "s", "e", ".", " ", "T", "h", "e", "n", ",", " ",
      "u", "s", "e", " ", "w", "h", "a", "t", " ", "y", "o", "u", " ", "d", "e", "t", "e",
      "c", "t", " ", "a", "n", "d", " ", "r", "e", "u", "s", "e", " ", "m", "e", "t", "h",
      "o", "d", "s", "/", "l", "i", "b", "r", "a", "r", "i", "e", "s", " ", "t", "o", " ",
      "c", "o", "m", "p", "l", "e", "t", "e", " ", "a", "n", "d", " ", "e", "n", "c", "l",
      "o", "s", "e", " ", "c", "o", "m", "p", "l", "e", "t", "e", "d", " ", "c", "o", "d",
      "e", " ", "o", "n", "l", "y", " ", "i", "n", "s", "i", "d", "e", " ", "X", "M", "L",
      " ", "t", "a", "g", "s", " ", "p", "r", "e", "c", "i", "s", "e", "l", "y", " ", "w",
      "i", "t", "h", "o", "u", "t", " ", "d", "u", "p", "l", "i", "c", "a", "t", "i", "n",
      "g", " ", "e", "x", "i", "s", "t", "i", "n", "g", " ", "i", "m", "p", "l", "e", "m",
      "e", "n", "t", "a", "t", "i", "o", "n", "s", ".", " ", "H", "e", "r", "e", " ", "i",
      "s", " ", "t", "h", "e", " ", "c", "o", "d", "e", ":", "\n", Backtick, Backtick,
      Backtick, "\n">>

InstTail ==
    <<"\n", Backtick, Backtick, Backtick, "[", "/", "I", "N", "S", "T", "]", "\n", " ">>


\* MODEL_MAP: the known-model table, id -> backend model name
MODEL_MAP ==
    (M_starcoder_16b :> "fireworks/starcoder-16b") @@
    (M_starcoder_7b :> "fireworks/starcoder-7b") @@
    (M_starcoder_3b :> "fireworks/accounts/fireworks/models/starcoder-3b-w8a16") @@
    (M_starcoder_1b :> "fireworks/accounts/fireworks/models/starcoder-1b-w8a16") @@
    (M_llama_code_7b :> "fireworks/accounts/fireworks/models/llama-v2-7b-code") @@
    (M_llama_code_13b :> "fireworks/accounts/fireworks/models/llama-v2-13b-code") @@
    (M_llama_code_13b_instruct :>
        "fireworks/accounts/fireworks/models/llama-v2-13b-code-instruct") @@
    (M_mistral_7b_instruct_4k :>
        "fireworks/accounts/fireworks/models/mistral-7b-instruct-4k")

\* type FireworksModel: the table's keys and the meta-model starcoder-hybrid
FireworksModel == DOMAIN MODEL_MAP \cup {M_starcoder_hybrid}

isStarCoderFamily(m) == StartsWith(m, STARCODER_PREFIX)

isLlamaCode(m) == StartsWith(m, LLAMA_CODE_PREFIX)

\* the table with the 2048 window for the StarCoder models only
getMaxContextTokensStarCoderOnly(m) ==
    CASE m \in {M_starcoder_hybrid, M_starcoder_16b, M_starcoder_7b,
                M_starcoder_3b, M_starcoder_1b} -> 2048
      [] OTHER -> 1200

getMaxContextTokens(m) ==
    CASE m \in {M_starcoder_hybrid, M_starcoder_16b, M_starcoder_7b,
                M_starcoder_3b, M_starcoder_1b} -> 2048
      [] m \in {M_llama_code_7b, M_llama_code_13b, M_llama_code_13b_instruct} -> 2048
      [] m = M_mistral_7b_instruct_4k -> 2048
      [] OTHER -> 1200

MAX_RESPONSE_TOKENS == 256

\* cody-shared prompt/constants: a fixed number of characters per token
CHARS_PER_TOKEN == 4

tokensToChars(tokens) == tokens * CHARS_PER_TOKEN

\* a budget that forgets the tokens reserved for the response
PromptCharsOfWholeWindow(maxContextTokens) == tokensToChars(maxContextTokens)

\* the constructor's promptChars
PromptCharsOf(maxContextTokens) == tokensToChars(maxContextTokens - MAX_RESPONSE_TOKENS)

\* ------------------------------------------------------------------------
\* Collaborators of createPrompt
\* ------------------------------------------------------------------------

\* getLanguageConfig: the language profile (its line-comment prefix), or none
getLanguageConfig(languageId) ==
    CASE languageId \in {"typescript", "javascript", "go", "java"} ->
            Some([commentStart |-> <<"/", "/", " ">>])
      [] languageId = "python" -> Some([commentStart |-> <<"#", " ">>])
      [] OTHER -> Undefined

\* the workspace folder that vscode.workspace.asRelativePath resolves against
WorkspaceRoot == <<"/", "w">>

\* vscode.workspace.asRelativePath: a path inside the workspace folder loses the
\* folder prefix, any other path is returned as it is
asRelativePath(fileName) ==
    IF StartsWith(fileName, WorkspaceRoot \o <<"/">>)
    THEN Slice(fileName, Len(WorkspaceRoot) + 1)
    ELSE fileName

\* text-processing trimSpace: a string with its trimmed form
trimSpace(s) == [raw |-> s, trimmed |-> Trim(s)]

\* the index found by getHeadAndTail's backwards scan: the line at which the
\* second non-blank line from the end starts, or -1
RECURSIVE tailStartFrom(_, _, _)
tailStartFrom(lines, i, nonEmptyCount) ==
    IF i < 0 THEN -1
    ELSE LET count == IF Len(Trim(lines[i + 1])) > 0
                      THEN nonEmptyCount + 1 ELSE nonEmptyCount
         IN  IF count >= 2 THEN i ELSE tailStartFrom(lines, i - 1, count)

\* text-processing getHeadAndTail: the prefix split before its last two
\* non-blank lines
getHeadAndTail(s) ==
    LET lines == Split(s, "\n")
        tailStart == tailStartFrom(lines, Len(lines) - 1, 0)
    IN  IF tailStart = -1
        THEN [head |-> trimSpace(s), tail |-> trimSpace(s)]
        ELSE [head |-> trimSpace(Join(ArraySlice(lines, 0, tailStart), NL) \o NL),
              tail |-> trimSpace(Join(ArraySlice(lines, tailStart, Len(lines)), NL))]

\* ------------------------------------------------------------------------
\* createPrompt and its helpers
\* ------------------------------------------------------------------------

\* the suffix cut after its first line break instead of at it
getSuffixPastFirstNewline(suffix) ==
    LET firstNlInSuffix == IndexOf(suffix, "\n")
    IN  IF firstNlInSuffix = -1 THEN <<>> ELSE Slice(suffix, IndexOf(suffix, "\n") + 1)

\* getSuffixAfterFirstNewline
getSuffixAfterFirstNewline(suffix) ==
    LET firstNlInSuffix == IndexOf(suffix, "\n")
    IN  IF firstNlInSuffix = -1 THEN <<>> ELSE Slice(suffix, IndexOf(suffix, "\n"))

\* the templates with the StarCoder one lacking its file name section
createInfillingPromptNoFilename(m, opts, filename, intro, prefix, suffix) ==
    IF isStarCoderFamily(m)
    THEN FimPrefix \o intro \o prefix \o FimSuffix \o suffix \o FimMiddle
    ELSE IF isLlamaCode(m)
    THEN LlamaPre \o intro \o prefix \o LlamaSuf \o suffix \o LlamaMid
    ELSE intro \o prefix

\* createInfillingPrompt: the model family's template
createInfillingPrompt(m, opts, filename, intro, prefix, suffix) ==
    IF isStarCoderFamily(m)
    THEN FimFilename \o filename \o FimPrefix \o intro \o prefix
            \o FimSuffix \o suffix \o FimMiddle
    ELSE IF isLlamaCode(m)
    THEN LlamaPre \o intro \o prefix \o LlamaSuf \o suffix \o LlamaMid
    ELSE IF m = M_mistral_7b_instruct_4k
    THEN LET relativeFilePath == asRelativePath(opts.document.fileName)
             ht == getHeadAndTail(opts.docContext.prefix)
             infillSuffix == opts.docContext.suffix
             infillBlock == IF EndsWith(ht.tail.trimmed, <<"{", "\n">>)
                            THEN TrimEnd(ht.tail.trimmed) ELSE ht.tail.trimmed
             infillPrefix == ht.head.raw
         IN  InstHead \o relativeFilePath \o InstBody
                \o intro \o infillPrefix \o OPENING_CODE_TAG \o CLOSING_CODE_TAG
                \o infillSuffix \o InstTail \o OPENING_CODE_TAG \o infillBlock
    ELSE intro \o prefix

\* the block createPrompt pushes onto the intro for one snippet
snippetIntro(snippet) ==
    IF "symbol" \in DOMAIN snippet /\ snippet.symbol # <<>>
    THEN DocIntroHead \o snippet.symbol \o DocIntroTail \o snippet.content
    ELSE RefIntroHead \o snippet.fileName \o RefIntroTail \o snippet.content

\* the comment line createPrompt makes of one intro line
commentLine(languageConfig, line) ==
    IF languageConfig # Undefined
    THEN languageConfig[1].commentStart \o line
    ELSE DefaultComment

\* the intro string left empty when there is no intro block
introStringOrEmpty(intro, languageConfig) ==
    IF intro = <<>> THEN <<>>
    ELSE LET lines == Split(Join(intro, <<"\n", "\n">>), "\n")
             mapped == [k \in 1..Len(lines) |-> commentLine(languageConfig, lines[k])]
         IN  Join(mapped, NL) \o NL

\* introString: the intro blocks joined, split into lines, each line
\* commented, joined again and closed by a line break
introStringOf(intro, languageConfig) ==
    LET lines == Split(Join(intro, <<"\n", "\n">>), "\n")
        mapped == [k \in 1..Len(lines) |-> commentLine(languageConfig, lines[k])]
    IN  Join(mapped, NL) \o NL

\* the candidate prompt built with the whole suffix
nextPromptOfWholeSuffix(m, opts, intro) ==
    createInfillingPrompt(m, opts,
        asRelativePath(opts.document.fileName),
        introStringOf(intro, getLanguageConfig(opts.document.languageId)),
        opts.docContext.prefix,
        opts.docContext.suffix)

\* the candidate prompt for the accumulated intro
nextPromptOf(m, opts, intro) ==
    createInfillingPrompt(m, opts,
        asRelativePath(opts.document.fileName),
        introStringOf(intro, getLanguageConfig(opts.document.languageId)),
        opts.docContext.prefix,
        getSuffixAfterFirstNewline(opts.docContext.suffix))

\* the intro before the first loop pass: the Path header unless StarCoder
initialIntro(m, opts) ==
    IF ~isStarCoderFamily(m) THEN <<PathHeader \o opts.document.fileName>> ELSE <<>>

\* the mutated return of the budget check: the candidate that did not fit
overBudgetReturnCandidate(prompt, nextPrompt) == nextPrompt

\* what createPrompt returns when the candidate meets or exceeds the budget
overBudgetReturn(prompt, nextPrompt) == prompt

\* the loop going on past a snippet whose candidate does not fit, leaving that
\* snippet out
RECURSIVE createPromptLoopSkipping(_, _, _, _, _, _, _)
createPromptLoopSkipping(m, chars, opts, snips, snippetsToInclude, intro, prompt) ==
    IF ~(snippetsToInclude < Len(snips) + 1) THEN prompt
    ELSE LET intro2 == IF snippetsToInclude > 0
                       THEN Append(intro, snippetIntro(snips[snippetsToInclude]))
                       ELSE intro
             nextPrompt == nextPromptOf(m, opts, intro2)
         IN  IF Len(nextPrompt) >= chars
             THEN createPromptLoopSkipping(m, chars, opts, snips,
                                           snippetsToInclude + 1, intro, prompt)
             ELSE createPromptLoopSkipping(m, chars, opts, snips,
                                           snippetsToInclude + 1, intro2, nextPrompt)

\* the loop of createPrompt from pass snippetsToInclude on
RECURSIVE createPromptLoop(_, _, _, _, _, _, _)
createPromptLoop(m, chars, opts, snips, snippetsToInclude, intro, prompt) ==
    IF ~(snippetsToInclude < Len(snips) + 1) THEN prompt
    ELSE LET intro2 == IF snippetsToInclude > 0
                       THEN Append(intro, snippetIntro(snips[snippetsToInclude]))
                       ELSE intro
             nextPrompt == nextPromptOf(m, opts, intro2)
         IN  IF Len(nextPrompt) >= chars
             THEN overBudgetReturn(prompt, nextPrompt)
             ELSE createPromptLoop(m, chars, opts, snips,
                                   snippetsToInclude + 1, intro2, nextPrompt)

createPrompt(m, chars, opts, snips) ==
    createPromptLoop(m, chars, opts, snips, 0, initialIntro(m, opts), <<>>)

\* the candidate prompt createPrompt builds in the pass that includes the
\* first k snippets
candidateOf(m, opts, snips, k) ==
    nextPromptOf(m, opts,
        initialIntro(m, opts) \o [j \in 1..k |-> snippetIntro(snips[j])])

\* ------------------------------------------------------------------------
\* Request parameters of generateCompletions
\* ------------------------------------------------------------------------

SINGLE_LINE_COMPLETION_ARGS ==
    [timeoutMs |-> 5000, maxTokensToSample |-> 30, stopSequences |-> Some(<<"\n">>)]

MULTI_LINE_COMPLETION_ARGS ==
    [timeoutMs |-> 15000, maxTokensToSample |-> MAX_RESPONSE_TOKENS,
     stopSequences |-> Some(<<"\n\n", "\n\r\n">>)]

DYNAMIC_MULTLILINE_COMPLETIONS_ARGS ==
    [timeoutMs |-> 15000, maxTokensToSample |-> MAX_RESPONSE_TOKENS,
     stopSequences |-> Undefined]

\* object spread / Object.assign: the source's properties over the target's
ObjectAssign(target, source) ==
    [k \in DOMAIN target \cup DOMAIN source |->
        IF k \in DOMAIN source THEN source[k] ELSE target[k]]

\* an optional number taken as set whenever it is not undefined, 0 included
IsDefined(x) == x # Undefined

\* JavaScript truthiness of an optional number: undefined and 0 are falsy
Truthy(x) == x # Undefined /\ x[1] # 0

\* the 16b model chosen for every request in extended generation
effectiveModelByExtendedGeneration(m, opts) ==
    IF m = M_starcoder_hybrid
    THEN MODEL_MAP[IF opts.multiline \/ opts.dynamicMultilineCompletions \/ opts.hotStreak
                   THEN M_starcoder_16b ELSE M_starcoder_7b]
    ELSE MODEL_MAP[m]

\* the model sent to the backend
effectiveModel(m, opts) ==
    IF m = M_starcoder_hybrid
    THEN MODEL_MAP[IF opts.multiline THEN M_starcoder_16b ELSE M_starcoder_7b]
    ELSE MODEL_MAP[m]

\* extended generation decided without the hot-streak flag
useExtendedGenerationNoHotStreak(opts) ==
    opts.multiline \/ opts.dynamicMultilineCompletions

useExtendedGenerationOf(opts) ==
    opts.multiline \/ opts.dynamicMultilineCompletions \/ opts.hotStreak

\* the preset spread into requestParams
presetOf(useExtendedGeneration) ==
    IF useExtendedGeneration THEN MULTI_LINE_COMPLETION_ARGS ELSE SINGLE_LINE_COMPLETION_ARGS

\* requestParams as first built: the preset and the fixed fields
initialRequestParams(m, opts, prompt) ==
    ObjectAssign(presetOf(useExtendedGenerationOf(opts)),
        [messages |-> <<[speaker |-> "human", text |-> prompt]>>,
         temperature |-> "0.2", topK |-> 0, model |-> effectiveModel(m, opts)])

\* "Apply custom multiline timeouts if they are defined."
applyMultilineTimeout(params, touts, useExtendedGeneration) ==
    IF Truthy(touts.multiline) /\ useExtendedGeneration
    THEN [params EXCEPT !.timeoutMs = touts.multiline[1]]
    ELSE params

\* "Apply custom singleline timeouts if they are defined."
applySinglelineTimeout(params, touts, useExtendedGeneration) ==
    IF Truthy(touts.singleline) /\ ~useExtendedGeneration
    THEN [params EXCEPT !.timeoutMs = touts.singleline[1]]
    ELSE params

\* requestParams when the zero-timeout test is made
resolvedRequestParams(m, opts, touts, prompt) ==
    applySinglelineTimeout(
        applyMultilineTimeout(initialRequestParams(m, opts, prompt),
                              touts, useExtendedGenerationOf(opts)),
        touts, useExtendedGenerationOf(opts))

\* requestParams dispatched as they were resolved, nothing assigned over them
dispatchedRequestParamsUnassigned(params, opts) == params

\* requestParams as dispatched: the dynamic-multiline arguments assigned over them
dispatchedRequestParams(params, opts) ==
    IF opts.dynamicMultilineCompletions
    THEN ObjectAssign(params, DYNAMIC_MULTLILINE_COMPLETIONS_ARGS)
    ELSE params

\* the pipeline entry point used for every sample
fetchImplOf(opts) ==
    IF opts.dynamicMultilineCompletions
    THEN "fetchAndProcessDynamicMultilineCompletions"
    ELSE "fetchAndProcessCompletions"

\* one call made by generateCompletions or by its aggregator; sample is the
\* sample fetch it belongs to, 0 when it belongs to none
callOf(name, sample) == [call |-> name, sample |-> sample]

\* a single sample fetch started whatever n is
sampleCountOne(opts) == 1

\* the number of sample fetches started: Array.from({ length: n })
sampleCount(opts) == opts.n

\* tracer?.params(requestParams)
paramsCalls(withTracer) ==
    IF withTracer THEN <<callOf("tracer.params", 0)>> ELSE <<>>

\* the calls of the pipeline entry point, one per sample
dispatchCalls(count) == [i \in 1..count |-> callOf("fetchAndProcessCompletionsImpl", i)]

\* the caller told of the list before the tracer is
reportCallsReadyFirst(withTracer) ==
    <<callOf("onCompletionReady", 0)>>
        \o (IF withTracer THEN <<callOf("tracer.result", 0)>> ELSE <<>>)

\* the calls made when the list has reached n entries: tracer?.result and
\* then onCompletionReady
reportCalls(withTracer) ==
    (IF withTracer THEN <<callOf("tracer.result", 0)>> ELSE <<>>)
        \o <<callOf("onCompletionReady", 0)>>

\* an aggregator whose list is declared inside the callback: every call
\* starts from an empty list
pushCompletionFresh(list, completion) == <<completion>>

\* completions.push(completion)
pushCompletion(list, completion) == Append(list, completion)

\* one dispatched sample fetch: its entry point, the objects it was handed (the
\* one requestParams object, whose content is the variable requestParams, and
\* the one abort signal), and the pipeline's progress on it
newFetch(impl) ==
    [impl |-> impl, requestParams |-> "requestParams", abortSignal |-> "abortSignal",
     status |-> "inflight", delivered |-> 0]

\* the aggregator reporting on every delivery from the n-th on
shouldReportAtLeast(len, n) == len >= n

\* the aggregator testing the length the list had before the push
shouldReportBeforePush(len, n) == len - 1 = n

\* the aggregator's test after a push: report when the list holds exactly n
shouldReport(len, n) == len = n

\* Promise.all taken for a race: settled with the first fetch that settles
PromiseAllFirstSettled(fs) ==
    IF \E i \in DOMAIN fs : fs[i].status = "rejected" THEN "rejected"
    ELSE IF \E i \in DOMAIN fs : fs[i].status \in {"done", "failed", "aborted"}
    THEN "resolved"
    ELSE "pending"

\* Promise.all over the sample fetches: pending, resolved or rejected
PromiseAll(fs) ==
    IF \E i \in DOMAIN fs : fs[i].status = "rejected" THEN "rejected"
    ELSE IF \A i \in DOMAIN fs : fs[i].status \in {"done", "failed", "aborted"}
    THEN "resolved"
    ELSE "pending"

\* ------------------------------------------------------------------------
\* createProviderConfig
\* ------------------------------------------------------------------------

\* the model argument null
Null == <<>>

UnknownModelHead ==
    <<"U", "n", "k", "n", "o", "w", "n", " ", "m", "o", "d", "e", "l", ":", " ">>

PROVIDER_IDENTIFIER == "fireworks"

\* every model string resolved to itself, recognised or not
resolvedModelAsGiven(m) ==
    IF m = Null \/ m = Some(<<>>) THEN Some(M_starcoder_hybrid)
    ELSE Some(m[1])

\* an unknown model string resolved to the hybrid meta-model instead of null
resolvedModelOrDefault(m) ==
    IF m = Null \/ m = Some(<<>>) THEN Some(M_starcoder_hybrid)
    ELSE IF m[1] = M_starcoder_hybrid THEN Some(M_starcoder_hybrid)
    ELSE IF m[1] \in DOMAIN MODEL_MAP THEN Some(m[1])
    ELSE Some(M_starcoder_hybrid)

\* resolvedModel: the model argument is Null or Some(string); the result is
\* Null when the string is not recognised
resolvedModelOf(m) ==
    IF m = Null \/ m = Some(<<>>) THEN Some(M_starcoder_hybrid)
    ELSE IF m[1] = M_starcoder_hybrid THEN Some(M_starcoder_hybrid)
    ELSE IF m[1] \in DOMAIN MODEL_MAP THEN Some(m[1])
    ELSE Null

\* what createProviderConfig throws or returns
createProviderConfig(m, touts) ==
    IF resolvedModelOf(m) = Null
    THEN [error |-> Some(UnknownModelHead \o <<Backtick>> \o m[1] \o <<Backtick>>),
          config |-> Undefined]
    ELSE [error |-> Undefined,
          config |-> Some([identifier |-> PROVIDER_IDENTIFIER,
                           model |-> resolvedModelOf(m)[1],
                           maxContextTokens |->
                               getMaxContextTokens(resolvedModelOf(m)[1]),
                           timeouts |-> touts])]

\* ------------------------------------------------------------------------
\* postProcess
\* ------------------------------------------------------------------------

\* the provider-specific post-processing of a raw model output
postProcess(m, content) ==
    IF isStarCoderFamily(m) THEN Replace(content, EOT_STARCODER, <<>>)
    ELSE IF isLlamaCode(m) THEN Replace(content, EOT_LLAMA_CODE, <<>>)
    ELSE content

\* ------------------------------------------------------------------------
\* handleContextFiles of the chat panel
\* ------------------------------------------------------------------------

\* one handleContextFiles call: the kind of its query ("empty", "symbol" for a
\* query that starts with #, "file"), where the call stands, and the state of
\* the token of its own CancellationTokenSource; a call with an empty query
\* posts the open tabs at once and has nothing left to do
newLookup(kind) ==
    [query |-> kind,
     pc |-> IF kind = "empty" THEN "done" ELSE "searching",
     isCancellationRequested |-> FALSE]

\* the userContextFiles message with the results of lookup i
userContextFiles(i) == [type |-> "userContextFiles", lookup |-> i]

\* the errors message postError sends for lookup i
errorsMessage(i) == [type |-> "errors", lookup |-> i]

\* this.contextFilesQueryCancellation?.cancel()
cancelStored(ls, stored) ==
    IF stored # Undefined
    THEN [ls EXCEPT ![stored[1]].isCancellationRequested = TRUE]
    ELSE ls

\* the finally block of lookup i: the stored token source is cancelled and the
\* lookup's own source is stored in its place
finallyOf(ls, stored, i) == [cancelStored(ls, stored) EXCEPT ![i].pc = "done"]

\* ------------------------------------------------------------------------
\* createWebviewPanel, revive and registerWebviewPanel of the chat panel
\* ------------------------------------------------------------------------

\* a webview panel object: whether registerWebviewPanel has put its handlers
\* on it, and whether it has been disposed
newPanel == [registered |-> FALSE, disposed |-> FALSE]

\* a createWebviewPanel or revive call: the panel it made, was handed or
\* returned, and where it stands ("addWebviewViewHTML" and "setContext" are the
\* awaits of registerWebviewPanel)
newPanelCall(name, panel, pc) == [fn |-> name, panel |-> panel, pc |-> pc]

\* the test registerWebviewPanel makes before anything else
alreadyRegistered(panel, view) == panel # Undefined \/ view # Undefined

\* registerWebviewPanel up to its first await: it throws, or awaits
\* addWebviewViewHTML
registerWebviewPanelStart(panel, view) ==
    IF alreadyRegistered(panel, view) THEN "threw" ELSE "addWebviewViewHTML"

\* ------------------------------------------------------------------------
\* createCodebaseContext and the memoized getRepoId
\* ------------------------------------------------------------------------

\* a memoize that never finds its key
memoizedNever(cache, key) == FALSE

\* lodash memoize: the cache is keyed by the first argument
memoized(cache, key) == key \in DOMAIN cache

\* the cache with one more key
cacheSet(cache, key, value) ==
    [k \in DOMAIN cache \cup {key} |-> IF k = key THEN value ELSE cache[k]]

\* the promise the function under memoize returns up to its first await: for
\* an empty codebase it holds null and no remote call is made, for any other
\* it is pending on sourcegraphClient.getRepoId
getRepoIdStart(codebase) == IF codebase # <<>> THEN "pending" ELSE "null"

\* what createCodebaseContext makes of a repository id: an embeddings search
\* client for an id, none for null or an error
embeddingsSearchOf(repoId) == IF repoId = "id" THEN "client" ELSE "null"

\* a createCodebaseContext call awaiting getRepoId
newContextCall(codebase) == [codebase |-> codebase, pc |-> "awaiting", embeddingsSearch |-> "none"]

\* ------------------------------------------------------------------------
\* The chat requests and sessions of the chat panel provider
\* ------------------------------------------------------------------------

\* a message handed to the webview: whether by postMessage or by a direct call,
\* and whether initialization had been signalled
handed(message, direct, initialized) ==
    [type |-> message.type, chatID |-> message.chatID,
     direct |-> direct, initialized |-> initialized]

\* this.webview?.postMessage(message) for each message of a list
webviewPostMessage(view, log, messages, direct, initialized) ==
    IF view # Undefined
    THEN log \o [i \in 1..Len(messages) |-> handed(messages[i], direct, initialized)]
    ELSE log

\* postMessage for each message of a list, which is
\* InitDoer.do(() => this.webview?.postMessage(message)): the waiting list
\* afterwards
postMessageWaiting(doer, messages) ==
    IF doer.initialized THEN doer ELSE [doer EXCEPT !.waiting = @ \o messages]

\* and the messages handed to the webview afterwards
postMessageHanded(doer, view, log, messages) ==
    IF doer.initialized THEN webviewPostMessage(view, log, messages, FALSE, TRUE) ELSE log

\* the messages of the model
transcriptMessage(id) == [type |-> "transcript", chatID |-> id]
historyMessage == [type |-> "history", chatID |-> 0]
chatModelsMessage == [type |-> "chatModels", chatID |-> 0]
customPromptsMessage == [type |-> "custom-prompts", chatID |-> 0]
enhancedContextMessage == [type |-> "enhanced-context", chatID |-> 0]
viewMessage == [type |-> "view", chatID |-> 0]
transcriptErrorsMessage == [type |-> "transcript-errors", chatID |-> 0]
errorBannerMessage == [type |-> "errors", chatID |-> 0]
noticeMessage == [type |-> "notice", chatID |-> 0]
configMessage == [type |-> "config", chatID |-> 0]

\* how many messages of some types were given to postMessage or to the webview
postedCount(doer, log, types) ==
    Cardinality({i \in DOMAIN doer.waiting : doer.waiting[i].type \in types})
        + Cardinality({i \in DOMAIN log : log[i].type \in types})

\* a chat request: the session whose human message it answers, the function
\* that made it, where it stands, how many times its canceller has been invoked
\* and how many onChange calls it has had
newChatRequest(session, kind, status) ==
    [session |-> session, kind |-> kind, status |-> status, cancels |-> 0, changes |-> 0]

\* cancelInProgressCompletion: the stored canceller, if any, is invoked
invokeCanceller(requests, canceller) ==
    IF canceller # Undefined
    THEN [requests EXCEPT ![canceller[1]].cancels = @ + 1]
    ELSE requests

\* SimpleChatModel.addHumanMessage, addBotMessage and addErrorAsBotMessage
addHumanMessage(cm, request) ==
    [cm EXCEPT !.messages = Append(@, [speaker |-> "human", request |-> request, error |-> FALSE])]
addBotMessage(cm, request) ==
    [cm EXCEPT !.messages = Append(@, [speaker |-> "assistant", request |-> request, error |-> FALSE])]
addErrorAsBotMessage(cm, request) ==
    [cm EXCEPT !.messages = Append(@, [speaker |-> "assistant", request |-> request, error |-> TRUE])]

\* ChatHistoryManager.saveChat and getChat
saveChat(hist, cm) ==
    [id \in DOMAIN hist \cup {cm.sessionID} |->
        IF id = cm.sessionID THEN cm.messages ELSE hist[id]]

getChat(hist, id) == IF id \in DOMAIN hist THEN Some(hist[id]) ELSE Undefined

\* newChatModelfromTranscriptJSON: a chat model with two messages for each
\* interaction of the saved transcript, a human message and an assistant
\* message, of which only the speaker and the text are kept; a transcript that
\* ends with a human message has an interaction whose assistant message has no
\* text (request 0)
newChatModelfromTranscriptJSON(id, transcript) ==
    [sessionID |-> id,
     messages |->
        [i \in 1..(2 * ((Len(transcript) + 1) \div 2)) |->
            IF i % 2 = 1
            THEN [speaker |-> "human", request |-> transcript[i].request, error |-> FALSE]
            ELSE [speaker |-> "assistant",
                  request |-> IF i <= Len(transcript) THEN transcript[i].request ELSE 0,
                  error |-> FALSE]]]

\* the session id of a chat model made anew
freshSessionID(hist, cm) ==
    LET ids == DOMAIN hist \cup {cm.sessionID}
    IN  1 + (CHOOSE i \in ids : \A j \in ids : j <= i)

\* a restoreSession or clearAndRestartSession call
newSessionCall(name, id, pc, transcript) ==
    [fn |-> name, id |-> id, pc |-> pc, transcript |-> transcript]

\* ------------------------------------------------------------------------
\* ContextProvider.getEnhancedContext
\* ------------------------------------------------------------------------

\* String.prototype.toLocaleLowerCase over the letters A to Z
UpperCaseLetters ==
    <<"A", "B", "C", "D", "E", "F", "G", "H", "I", "J", "K", "L", "M",
      "N", "O", "P", "Q", "R", "S", "T", "U", "V", "W", "X", "Y", "Z">>
LowerCaseLetters ==
    <<"a", "b", "c", "d", "e", "f", "g", "h", "i", "j", "k", "l", "m",
      "n", "o", "p", "q", "r", "s", "t", "u", "v", "w", "x", "y", "z">>
toLocaleLowerCase(str) ==
    [i \in DOMAIN str |->
        IF \E k \in DOMAIN UpperCaseLetters : UpperCaseLetters[k] = str[i]
        THEN LowerCaseLetters[CHOOSE k \in DOMAIN UpperCaseLetters : UpperCaseLetters[k] = str[i]]
        ELSE str[i]]

\* file names: of a README the test of getEnhancedContext accepts, of READMEs
\* it does not, and of a source file
Str_README == <<"R", "E", "A", "D", "M", "E">>
Str_README_md == Str_README \o <<".", "m", "d">>
Str_readme_md == <<"r", "e", "a", "d", "m", "e", ".", "m", "d">>
Str_README_dev_md == Str_README \o <<"-", "d", "e", "v", ".", "m", "d">>
Str_Readm_md == <<"R", "e", "a", "d", "m", ".", "m", "d">>
Str_a_ts_name == <<"a", ".", "t", "s">>

\* whether a file name matches the pattern '{README,README.,readme.,Readm.}*'
\* that getReadmeContext gives to findFiles
matchesReadmePattern(name) ==
    \/ StartsWith(name, Str_README)
    \/ StartsWith(name, Str_README \o <<".">>)
    \/ StartsWith(name, <<"r", "e", "a", "d", "m", "e", ".">>)
    \/ StartsWith(name, <<"R", "e", "a", "d", "m", ".">>)

\* a context item: the search it came from and the basename of its uri
contextItem(source, basename) == [source |-> source, basename |-> basename]

\* the context items a search contributes: those it returned (a source file,
\* or the README when the search found that), none when it returned nothing,
\* failed or is not configured
searchItems(outcome, source) ==
    IF outcome = "items" THEN <<contextItem(source, Str_a_ts_name)>>
    ELSE IF outcome = "readme" THEN <<contextItem(source, Str_README_md)>>
    ELSE <<>>

\* getReadmeContext: the README of the workspace, if one is found
readmeItems(readme) ==
    IF readme.outcome = "found" THEN <<contextItem("readme", readme.basename)>> ELSE <<>>

\* whether both embeddings errors are set after the two try blocks
bothEmbeddingsFailed(local, remote) == local = "fails" /\ remote = "fails"

\* hasEmbeddingsContext after the two try blocks
hasEmbeddingsContext(local, remote) ==
    local \in {"items", "readme"} \/ remote \in {"items", "readme"}

\* whether searchSymf is called
symfRuns(local, remote, symf) ==
    ~hasEmbeddingsContext(local, remote) /\ symf # "unconfigured"

\* containsREADME: whether the basename of an item of the search context is
\* 'readme' or starts with 'readme.', in lower case
containsREADME(searchContext) ==
    \E i \in DOMAIN searchContext :
        LET basename == toLocaleLowerCase(searchContext[i].basename)
        IN  \/ basename = toLocaleLowerCase(Str_README)
            \/ StartsWith(basename, <<"r", "e", "a", "d", "m", "e", ".">>)

\* whether getReadmeContext is called a second time, for the priority context
readmeCalledAgain(priority, searchContext) ==
    priority = "readme" /\ ~containsREADME(searchContext)

\* the priority context put in front of the search context; readmeAgain is
\* the outcome of the second call of getReadmeContext
priorityContext(priority, searchContext, readmeAgain) ==
    IF priority = "selection" THEN <<contextItem("selection", Str_a_ts_name)>>
    ELSE IF priority = "attention" THEN <<contextItem("visible", Str_a_ts_name)>>
    ELSE IF readmeCalledAgain(priority, searchContext) THEN readmeItems(readmeAgain)
    ELSE <<>>

\* what getEnhancedContext returns or throws
enhancedContextResult(threw, error, items, symfRan) ==
    [threw |-> threw, error |-> error, items |-> items, symfRan |-> symfRan]

getEnhancedContext(a) ==
    IF a.readme.outcome = "fails"
    THEN enhancedContextResult(TRUE, "readme", <<>>, FALSE)
    ELSE IF bothEmbeddingsFailed(a.local, a.remote)
    THEN enhancedContextResult(TRUE, "local and remote embeddings search failed", <<>>, FALSE)
    ELSE LET ran == symfRuns(a.local, a.remote, a.symf)
             searchContext ==
                 readmeItems(a.readme) \o searchItems(a.local, "local")
                     \o searchItems(a.remote, "remote")
                     \o (IF ran THEN searchItems(a.symf, "symf") ELSE <<>>)
         IN  IF readmeCalledAgain(a.priority, searchContext) /\ a.readmeAgain.outcome = "fails"
             THEN enhancedContextResult(TRUE, "readme", <<>>, ran)
             ELSE enhancedContextResult(
                      FALSE, "",
                      priorityContext(a.priority, searchContext, a.readmeAgain)
                          \o searchContext,
                      ran)

\* ------------------------------------------------------------------------
\* Bounds and inputs
\* ------------------------------------------------------------------------

\* the largest sample count n of a request
MaxN == 2

\* the most items one sample's pipeline hands to its completion callback
MaxItemsPerSample == 2

\* the longest list of context snippets handed to createPrompt
MaxSnippets == 2

Str_a_ts == <<"/", "w", "/", "a", ".", "t", "s">>
Str_b_py == <<"/", "w", "/", "b", ".", "p", "y">>
Str_n_txt == <<"/", "x", "/", "n", ".", "t", "x", "t">>

Documents ==
    {[fileName |-> Str_a_ts, languageId |-> "typescript"],
     [fileName |-> Str_b_py, languageId |-> "python"],
     [fileName |-> Str_n_txt, languageId |-> "plaintext"]}

\* a prefix of PromptCharsOf(2048) - d characters on one line
LongPrefix(d) == [i \in 1..(PromptCharsOf(2048) - d) |-> "x"]

ShortPrefix == <<"d", "e", "f", " ", "f", "(", ")", ":", "\n">>

Prefixes == {ShortPrefix} \cup {LongPrefix(d) : d \in {0, 58, 59, 115, 116}}

Suffixes == {<<"a", "b", "c", "\n", "d", "e", "f">>, <<"x", "y", "z">>}

FileSnippet ==
    [fileName |-> <<"u", ".", "t", "s">>, content |-> <<"x", "=", "1">>]

SymbolSnippet ==
    [fileName |-> <<"v", ".", "t", "s">>, symbol |-> <<"f", "o", "o">>,
     content |-> <<"d", "o", "c", "\n", "s">>]

SnippetPool == {FileSnippet, SymbolSnippet}

SnippetLists == UNION {[1..k -> SnippetPool] : k \in 0..MaxSnippets}

\* the timeout overrides of the configuration: unset, 0 or a positive number
MultilineTimeouts == {Undefined, Some(0), Some(7000)}
SinglelineTimeouts == {Undefined, Some(0), Some(2000)}

Str_toString ==
    <<"t", "o", "S", "t", "r", "i", "n", "g">>

Str_constructor ==
    <<"c", "o", "n", "s", "t", "r", "u", "c", "t", "o", "r">>

Str_starcoder ==
    <<"s", "t", "a", "r", "c", "o", "d", "e", "r">>

Str_llama_code ==
    <<"l", "l", "a", "m", "a", "-", "c", "o", "d", "e">>

Str_starcoder_hybrid2 ==
    <<"s", "t", "a", "r", "c", "o", "d", "e", "r", "-", "h", "y", "b", "r", "i", "d", "2">>

Str_STARCODER_16B ==
    <<"S", "T", "A", "R", "C", "O", "D", "E", "R", "-", "1", "6", "B">>

Str_gpt_4 ==
    <<"g", "p", "t", "-", "4">>

\* strings that are neither empty, nor the hybrid id, nor a key of MODEL_MAP:
\* names inherited from Object.prototype, family prefixes, near misses
UnknownModelStrings ==
    {Str_toString, Str_constructor, Str_starcoder, Str_llama_code,
     Str_starcoder_hybrid2, Str_STARCODER_16B, Str_gpt_4}

\* the model arguments given to createProviderConfig
ModelArguments ==
    {Null, Some(<<>>)} \cup {Some(m) : m \in FireworksModel \cup UnknownModelStrings}

\* the longest suffix enumerated character by character
MaxSuffixLen == 4

\* the characters of the enumerated suffixes
SuffixAlphabet == {"a", "b", "\n"}

\* the suffixes given to getSuffixAfterFirstNewline: every string over the
\* alphabet up to the length bound, and the suffixes of the prompt requests
SuffixTexts ==
    UNION {[1..k -> SuffixAlphabet] : k \in 0..MaxSuffixLen} \cup Suffixes

\* the largest number of pieces a raw model output is made of
MaxOutputPieces == 3

\* the pieces of the raw outputs: a character of code and the two sentinels
OutputPieces == {<<"x">>, EOT_STARCODER, EOT_LLAMA_CODE}

RECURSIVE Flatten(_)
Flatten(pieces) ==
    IF pieces = <<>> THEN <<>> ELSE Head(pieces) \o Flatten(Tail(pieces))

\* the raw outputs given to postProcess: with no, one and several sentinels
RawOutputs ==
    {Flatten(ps) : ps \in UNION {[1..k -> OutputPieces] : k \in 0..MaxOutputPieces}}

\* the largest number of getUserContext messages the panel receives
MaxLookups == 3

\* the kinds of query of a getUserContext message
QueryKinds == {"empty", "symbol", "file"}

\* the largest number of createWebviewPanel and revive calls
MaxPanelCalls == 3

\* the arguments given to createInfillingPrompt
InfillIntros == {<<>>, <<"/", "/", " ", "\n">>}
InfillPrefixes == {<<>>, ShortPrefix}
InfillSuffixes == {<<>>, <<"\n", "d">>}

\* the context windows given to the constructor
ContextWindows == {1200, 2048}

\* the largest number of createCodebaseContext calls
MaxContextCalls == 3

\* the codebase strings of the calls
Codebases == {<<>>, <<"a">>, <<"b">>}

\* what sourcegraphClient.getRepoId resolves to: an id, null or an Error value
RepoIdResults == {"id", "null", "error"}

\* the largest number of chat requests one after the other; the largest
\* number of chat requests among session commands, panel calls and the
\* initialization; the largest number of restoreSession, clearAndRestartSession
\* and onInitialized calls
MaxChatRequests == 3
MaxSessionRequests == 2
MaxSessionCalls == 2

\* the largest number of onChange calls of a chat request
MaxChanges == 1

\* the most messages of one type for which a command that posts outside a
\* chat request still runs
MaxWebviewCommands == 1

\* the session ids given to restoreSession
RestoredIds == 1..(MaxSessionCalls + 1)

\* the outcomes of a search of getEnhancedContext, of the README lookup, and
\* what the question and the editor ask for as priority context
SearchOutcomes == {"unconfigured", "empty", "items", "readme", "fails"}
ReadmeNames ==
    {name \in {Str_README, Str_README_md, Str_readme_md, Str_README_dev_md, Str_Readm_md} :
        matchesReadmePattern(name)}
ReadmeOutcomes ==
    {[outcome |-> o, basename |-> <<>>] : o \in {"none", "fails"}}
        \cup {[outcome |-> "found", basename |-> name] : name \in ReadmeNames}
PriorityKinds == {"selection", "attention", "readme", "none"}

\* ------------------------------------------------------------------------
\* State
\* ------------------------------------------------------------------------

VARIABLES
    model,          \* FireworksProvider.model
    promptChars,    \* FireworksProvider.promptChars
    timeouts,       \* FireworksProvider.timeouts
    options,        \* Provider.options
    snippets,       \* the snippets argument
    aborted,        \* abortSignal.aborted
    tracer,         \* whether a tracer was passed
    tracerLog,      \* the calls made on the tracer
    gc,             \* generateCompletions: idle, awaiting, resolved, rejected
    requestParams,  \* the requestParams object, once built
    fetches,        \* the dispatched sample fetches
    completions,    \* the completions array of the aggregator
    readyCalls,     \* the arguments of the onCompletionReady calls, in order
    promptPc,       \* createPrompt called on its own: start, done, off
    prompt,         \* what that call returned
    calls,          \* the calls generateCompletions and its aggregator make, in order
    fn,             \* the function called on its own, "off" when none is
    args,           \* the arguments of that call
    ret,            \* what that call returned or threw, once it has
    lookups,        \* the handleContextFiles calls of the chat panel, in order
    contextFilesQueryCancellation,  \* SimpleChatPanelProvider's field
    webviewPosts,   \* the userContextFiles messages posted to the webview
    panels,         \* the webview panel objects made for or handed to the provider
    panelCalls,     \* the createWebviewPanel and revive calls, in order
    webviewPanel,   \* SimpleChatPanelProvider._webviewPanel
    webview,        \* SimpleChatPanelProvider._webview
    completionCanceller,  \* SimpleChatPanelProvider.completionCanceller
    chatRequests,   \* the chat requests sendLLMRequest has started, in order
    chatModel,      \* SimpleChatPanelProvider.chatModel
    sessionID,      \* SimpleChatPanelProvider.sessionID
    history,        \* the sessions the ChatHistoryManager holds
    sessionCalls,   \* the restoreSession and clearAndRestartSession calls, in order
    initDoer,       \* SimpleChatPanelProvider.initDoer
    webviewMessages,  \* the messages the webview has been handed, in order
    repoIdCache,    \* the cache of the memoized getRepoId
    remoteCalls,    \* the codebases sourcegraphClient.getRepoId was called with
    contextCalls    \* the createCodebaseContext calls, in order

vars == <<model, promptChars, timeouts, options, snippets, aborted, tracer,
          tracerLog, gc, requestParams, fetches, completions, readyCalls,
          promptPc, prompt, calls, fn, args, ret, lookups,
          contextFilesQueryCancellation, webviewPosts, panels, panelCalls,
          webviewPanel, webview, completionCanceller, chatRequests, chatModel,
          sessionID, history, sessionCalls, initDoer, webviewMessages,
          repoIdCache, remoteCalls, contextCalls>>

callVars == <<fn, args, ret>>

lookupVars == <<lookups, contextFilesQueryCancellation, webviewPosts>>

webviewVars == <<panels, panelCalls, webviewPanel, webview>>

panelVars == <<lookupVars, webviewVars>>

chatVars == <<completionCanceller, chatRequests, chatModel, sessionID, history,
              sessionCalls>>

initVars == <<initDoer, webviewMessages>>

codebaseVars == <<repoIdCache, remoteCalls, contextCalls>>

extensionVars == <<chatVars, initVars, codebaseVars>>

\* postMessage for each message of a list: the InitDoer keeps them until
\* initialization is signalled, and hands them to the webview after it
PostMessages(view, messages) ==
    /\ initDoer' = postMessageWaiting(initDoer, messages)
    /\ webviewMessages' = postMessageHanded(initDoer, view, webviewMessages, messages)

\* no function is called on its own
NoCall ==
    /\ fn = "off"
    /\ args = <<>>
    /\ ret = Undefined

\* the chat panel has received no getUserContext message
NoLookup ==
    /\ lookups = <<>>
    /\ contextFilesQueryCancellation = Undefined
    /\ webviewPosts = <<>>

\* no webview panel has been made for the chat panel provider
NoPanel ==
    /\ panels = <<>>
    /\ panelCalls = <<>>
    /\ webviewPanel = Undefined
    /\ webview = Undefined

\* a chat panel provider whose webview panel is registered
OnePanel ==
    /\ panels = <<[registered |-> TRUE, disposed |-> FALSE]>>
    /\ panelCalls = <<[fn |-> "createWebviewPanel", panel |-> 1, pc |-> "returned"]>>
    /\ webviewPanel = <<1>>
    /\ webview = <<1>>

\* the chat model the constructor makes: a session without messages
newChatModel(id) == [sessionID |-> id, messages |-> <<>>]

\* the chat panel provider as constructed: no chat request, a new session that
\* is not in the history
NoChat ==
    /\ completionCanceller = Undefined
    /\ chatRequests = <<>>
    /\ chatModel = newChatModel(1)
    /\ sessionID = 1
    /\ history = <<>>
    /\ sessionCalls = <<>>

\* the InitDoer as constructed: not initialized, nothing waiting
NoInitDoer ==
    /\ initDoer = [initialized |-> FALSE, waiting |-> <<>>]
    /\ webviewMessages = <<>>

\* the InitDoer of a registered panel whose webview has not signalled its
\* initialization: it holds the context status registerWebviewPanel posted
\* after it stored the panel
PanelInitDoer ==
    /\ initDoer = [initialized |-> FALSE, waiting |-> <<enhancedContextMessage>>]
    /\ webviewMessages = <<>>

\* the InitDoer of a panel whose webview has signalled its initialization
InitDone ==
    /\ initDoer = [initialized |-> TRUE, waiting |-> <<>>]
    /\ webviewMessages = <<>>

\* the chat of a provider whose onInitialized has run: no chat request, and the
\* new session saved without messages
SavedChat ==
    /\ completionCanceller = Undefined
    /\ chatRequests = <<>>
    /\ chatModel = newChatModel(1)
    /\ sessionID = 1
    /\ history = saveChat(<<>>, newChatModel(1))
    /\ sessionCalls = <<>>

\* getRepoId has not been called
NoCodebase ==
    /\ repoIdCache = <<>>
    /\ remoteCalls = <<>>
    /\ contextCalls = <<>>

providerVars == <<model, promptChars, timeouts, options, snippets, tracer>>

\* promptChars of a provider made by createProviderConfig(...).create(options)
createdPromptChars(m) == PromptCharsOf(getMaxContextTokens(m))

\* ------------------------------------------------------------------------
\* generateCompletions
\* ------------------------------------------------------------------------

\* the state of a provider on which generateCompletions has not been called
Idle ==
    /\ promptChars = createdPromptChars(model)
    /\ snippets = <<FileSnippet>>
    /\ aborted = FALSE
    /\ tracerLog = <<>>
    /\ gc = "idle"
    /\ requestParams = Undefined
    /\ fetches = <<>>
    /\ completions = <<>>
    /\ readyCalls = <<>>
    /\ promptPc = "off"
    /\ prompt = Undefined
    /\ calls = <<>>
    /\ NoCall
    /\ NoLookup
    /\ NoPanel
    /\ NoChat
    /\ NoInitDoer
    /\ NoCodebase

\* the document and cursor context of the generateCompletions requests
RequestDocument == [fileName |-> Str_a_ts, languageId |-> "typescript"]
RequestContext ==
    [prefix |-> ShortPrefix, suffix |-> <<"a", "b", "c", "\n", "d", "e", "f">>]

\* providers for the whole life of a request, from the call to its settling:
\* the hybrid model without timeout overrides, a multi-line request, with and
\* without a tracer, n from 1 to MaxN
Init ==
    /\ model = M_starcoder_hybrid
    /\ timeouts = [multiline |-> Undefined, singleline |-> Undefined]
    /\ options \in
        [multiline : {TRUE}, dynamicMultilineCompletions : {FALSE},
         hotStreak : {FALSE}, n : 1..MaxN,
         document : {RequestDocument}, docContext : {RequestContext}]
    /\ tracer \in BOOLEAN
    /\ Idle

\* generateCompletions up to its await: the prompt, the request parameters, the
\* zero-timeout return, the tracer and the dispatch of the n sample fetches
GenerateCompletions ==
    /\ gc = "idle"
    /\ LET params == resolvedRequestParams(model, options, timeouts,
                        createPrompt(model, promptChars, options, snippets))
       IN  IF params.timeoutMs = 0
           THEN /\ requestParams' = Some(params)
                /\ readyCalls' = Append(readyCalls, <<>>)
                /\ calls' = Append(calls, callOf("onCompletionReady", 0))
                /\ gc' = "resolved"
                /\ UNCHANGED <<tracerLog, fetches, completions>>
           ELSE /\ requestParams' = Some(dispatchedRequestParams(params, options))
                /\ tracerLog' =
                     IF tracer
                     THEN Append(tracerLog,
                            [call |-> "params",
                             arg |-> dispatchedRequestParams(params, options)])
                     ELSE tracerLog
                /\ completions' = <<>>
                /\ fetches' =
                     [i \in 1..sampleCount(options) |-> newFetch(fetchImplOf(options))]
                /\ calls' =
                     calls \o paramsCalls(tracer)
                           \o dispatchCalls(sampleCount(options))
                /\ gc' = "awaiting"
                /\ UNCHANGED readyCalls
    /\ UNCHANGED <<providerVars, aborted, promptPc, prompt, callVars, panelVars,
                   extensionVars>>

\* whether the abort signal a fetch was handed has been triggered
fetchAborted(f) == f.abortSignal = "abortSignal" /\ aborted

\* onCompletionReadyImpl called with an item of sample i: the item is pushed
\* and, when the list then holds exactly n items, the tracer and
\* onCompletionReady get the list; the abort signal is not read
onCompletionReadyImpl(i) ==
    /\ completions' = pushCompletion(completions, i)
    /\ IF shouldReport(Len(completions'), options.n)
       THEN /\ tracerLog' =
                 IF tracer
                 THEN Append(tracerLog, [call |-> "result", arg |-> completions'])
                 ELSE tracerLog
            /\ readyCalls' = Append(readyCalls, completions')
            /\ calls' =
                 Append(calls, callOf("onCompletionReadyImpl", i)) \o reportCalls(tracer)
       ELSE /\ calls' = Append(calls, callOf("onCompletionReadyImpl", i))
            /\ UNCHANGED <<tracerLog, readyCalls>>

\* the pipeline of sample i, whose stream has not yet ended or been stopped,
\* hands an item to onCompletionReadyImpl
Deliver(i) ==
    /\ gc = "awaiting"
    /\ i \in DOMAIN fetches
    /\ fetches[i].status = "inflight"
    /\ fetches[i].delivered < MaxItemsPerSample
    /\ fetches' = [fetches EXCEPT ![i].delivered = @ + 1]
    /\ onCompletionReadyImpl(i)
    /\ UNCHANGED <<providerVars, aborted, gc, requestParams, promptPc, prompt,
                   callVars, panelVars, extensionVars>>

\* the pipeline of sample i finishes: its stream ended, or it was stopped
\* after the abort signal
FetchSettle(i) ==
    /\ gc = "awaiting"
    /\ i \in DOMAIN fetches
    /\ fetches[i].status = "inflight"
    /\ fetches' = [fetches EXCEPT
                      ![i].status = IF fetchAborted(fetches[i]) THEN "aborted" ELSE "done"]
    /\ UNCHANGED <<providerVars, aborted, tracerLog, gc, requestParams, completions,
                   readyCalls, promptPc, prompt, calls, callVars, panelVars,
                   extensionVars>>

\* the backend call of sample i fails or times out before any item; the
\* pipeline absorbs the failure
FetchFail(i) ==
    /\ gc = "awaiting"
    /\ i \in DOMAIN fetches
    /\ fetches[i].status = "inflight"
    /\ ~fetchAborted(fetches[i])
    /\ fetches[i].delivered = 0
    /\ fetches' = [fetches EXCEPT ![i].status = "failed"]
    /\ UNCHANGED <<providerVars, aborted, tracerLog, gc, requestParams, completions,
                   readyCalls, promptPc, prompt, calls, callVars, panelVars,
                   extensionVars>>

\* the caller triggers the shared abort signal
Abort ==
    /\ gc \in {"idle", "awaiting"}
    /\ ~aborted
    /\ aborted' = TRUE
    /\ UNCHANGED <<providerVars, tracerLog, gc, requestParams, fetches, completions,
                   readyCalls, promptPc, prompt, calls, callVars, panelVars,
                   extensionVars>>

\* the await of Promise.all ends and generateCompletions settles
Settle ==
    /\ gc = "awaiting"
    /\ PromiseAll(fetches) # "pending"
    /\ gc' = PromiseAll(fetches)
    /\ UNCHANGED <<providerVars, aborted, tracerLog, requestParams, fetches,
                   completions, readyCalls, promptPc, prompt, calls, callVars, panelVars,
                   extensionVars>>

Next ==
    \/ GenerateCompletions
    \/ \E i \in 1..MaxN : Deliver(i)
    \/ \E i \in 1..MaxN : FetchSettle(i)
    \/ \E i \in 1..MaxN : FetchFail(i)
    \/ Abort
    \/ Settle

Spec == Init /\ [][Next]_vars

\* ------------------------------------------------------------------------
\* The call of generateCompletions alone, over every model, flag combination
\* and timeout configuration
\* ------------------------------------------------------------------------

InitDispatch ==
    /\ model \in FireworksModel
    /\ timeouts \in [multiline : MultilineTimeouts, singleline : SinglelineTimeouts]
    /\ options \in
        [multiline : BOOLEAN, dynamicMultilineCompletions : BOOLEAN,
         hotStreak : BOOLEAN, n : 1..MaxN,
         document : {RequestDocument}, docContext : {RequestContext}]
    /\ tracer \in BOOLEAN
    /\ Idle

NextDispatch == GenerateCompletions

SpecDispatch == InitDispatch /\ [][NextDispatch]_vars

\* ------------------------------------------------------------------------
\* createPrompt on its own, over documents, prefixes, suffixes and snippets
\* ------------------------------------------------------------------------

InitPrompt ==
    /\ model \in FireworksModel
    /\ promptChars = createdPromptChars(model)
    /\ timeouts = [multiline |-> Undefined, singleline |-> Undefined]
    /\ options \in
        [multiline : {FALSE}, dynamicMultilineCompletions : {FALSE},
         hotStreak : {FALSE}, n : {1},
         document : Documents,
         docContext : [prefix : Prefixes, suffix : Suffixes]]
    /\ snippets \in SnippetLists
    /\ aborted = FALSE
    /\ tracer = FALSE
    /\ tracerLog = <<>>
    /\ gc = "off"
    /\ requestParams = Undefined
    /\ fetches = <<>>
    /\ completions = <<>>
    /\ readyCalls = <<>>
    /\ promptPc = "start"
    /\ prompt = Undefined
    /\ calls = <<>>
    /\ NoCall
    /\ NoLookup
    /\ NoPanel
    /\ NoChat
    /\ NoInitDoer
    /\ NoCodebase

CreatePrompt ==
    /\ promptPc = "start"
    /\ prompt' = Some(createPrompt(model, promptChars, options, snippets))
    /\ promptPc' = "done"
    /\ UNCHANGED <<providerVars, aborted, tracerLog, gc, requestParams, fetches,
                   completions, readyCalls, calls, callVars, panelVars, extensionVars>>

NextPrompt == CreatePrompt

SpecPrompt == InitPrompt /\ [][NextPrompt]_vars

\* the sample fetches settle and the await ends: the pipeline ends a stream that
\* was aborted or ran to its end, and the event loop runs the continuation
FairSpec ==
    /\ Spec
    /\ WF_vars(Settle)
    /\ \A i \in 1..MaxN : WF_vars(FetchSettle(i))

\* ------------------------------------------------------------------------
\* Functions called on their own
\* ------------------------------------------------------------------------

\* no provider is at work: the variables of generateCompletions and of
\* createPrompt are at rest
NoRequest ==
    /\ promptChars = createdPromptChars(model)
    /\ timeouts = [multiline |-> Undefined, singleline |-> Undefined]
    /\ options =
        [multiline |-> FALSE, dynamicMultilineCompletions |-> FALSE,
         hotStreak |-> FALSE, n |-> 1,
         document |-> RequestDocument, docContext |-> RequestContext]
    /\ snippets = <<>>
    /\ aborted = FALSE
    /\ tracer = FALSE
    /\ tracerLog = <<>>
    /\ gc = "off"
    /\ requestParams = Undefined
    /\ fetches = <<>>
    /\ completions = <<>>
    /\ readyCalls = <<>>
    /\ promptPc = "off"
    /\ prompt = Undefined
    /\ calls = <<>>

\* createProviderConfig over model arguments and timeout configurations
InitConfig ==
    /\ model = M_starcoder_hybrid
    /\ NoRequest
    /\ NoLookup
    /\ NoPanel
    /\ NoChat
    /\ NoInitDoer
    /\ NoCodebase
    /\ fn = "createProviderConfig"
    /\ args \in [model : ModelArguments,
                 timeouts : [multiline : MultilineTimeouts,
                             singleline : SinglelineTimeouts]]
    /\ ret = Undefined

CreateProviderConfig ==
    /\ fn = "createProviderConfig"
    /\ ret = Undefined
    /\ ret' = Some(createProviderConfig(args.model, args.timeouts))
    /\ UNCHANGED <<providerVars, aborted, tracerLog, gc, requestParams, fetches,
                   completions, readyCalls, promptPc, prompt, calls, fn, args,
                   panelVars, extensionVars>>

NextConfig == CreateProviderConfig

SpecConfig == InitConfig /\ [][NextConfig]_vars

\* getSuffixAfterFirstNewline over suffixes
InitSuffix ==
    /\ model = M_starcoder_hybrid
    /\ NoRequest
    /\ NoLookup
    /\ NoPanel
    /\ NoChat
    /\ NoInitDoer
    /\ NoCodebase
    /\ fn = "getSuffixAfterFirstNewline"
    /\ args \in [suffix : SuffixTexts]
    /\ ret = Undefined

GetSuffixAfterFirstNewline ==
    /\ fn = "getSuffixAfterFirstNewline"
    /\ ret = Undefined
    /\ ret' = Some(getSuffixAfterFirstNewline(args.suffix))
    /\ UNCHANGED <<providerVars, aborted, tracerLog, gc, requestParams, fetches,
                   completions, readyCalls, promptPc, prompt, calls, fn, args,
                   panelVars, extensionVars>>

NextSuffix == GetSuffixAfterFirstNewline

SpecSuffix == InitSuffix /\ [][NextSuffix]_vars

\* postProcess of a provider of every model, over raw outputs
InitPostProcess ==
    /\ model \in FireworksModel
    /\ NoRequest
    /\ NoLookup
    /\ NoPanel
    /\ NoChat
    /\ NoInitDoer
    /\ NoCodebase
    /\ fn = "postProcess"
    /\ args \in [content : RawOutputs]
    /\ ret = Undefined

PostProcess ==
    /\ fn = "postProcess"
    /\ ret = Undefined
    /\ ret' = Some(postProcess(model, args.content))
    /\ UNCHANGED <<providerVars, aborted, tracerLog, gc, requestParams, fetches,
                   completions, readyCalls, promptPc, prompt, calls, fn, args,
                   panelVars, extensionVars>>

NextPostProcess == PostProcess

SpecPostProcess == InitPostProcess /\ [][NextPostProcess]_vars

\* ------------------------------------------------------------------------
\* The context-file lookups of the chat panel
\* ------------------------------------------------------------------------

requestVars ==
    <<aborted, tracerLog, gc, requestParams, fetches, completions, readyCalls,
      promptPc, prompt, calls>>

\* an initialized chat panel that has received no getUserContext message
InitContextFiles ==
    /\ model = M_starcoder_hybrid
    /\ NoRequest
    /\ NoCall
    /\ NoLookup
    /\ OnePanel
    /\ NoChat
    /\ InitDone
    /\ NoCodebase

\* a getUserContext message arrives and handleContextFiles runs up to its
\* first await: an empty query posts the open tabs, any other query makes its
\* token source and starts its search
HandleContextFiles(kind) ==
    /\ Len(lookups) < MaxLookups
    /\ lookups' = Append(lookups, newLookup(kind))
    /\ webviewPosts' =
         IF kind = "empty"
         THEN Append(webviewPosts, userContextFiles(Len(lookups) + 1))
         ELSE webviewPosts
    /\ UNCHANGED <<providerVars, requestVars, callVars, webviewVars,
                   contextFilesQueryCancellation, extensionVars>>

\* the search of lookup i resolves: its results are posted unless its own
\* token was cancelled, in which case the finally block runs at once
SearchResolve(i) ==
    /\ i \in DOMAIN lookups
    /\ lookups[i].pc = "searching"
    /\ IF ~lookups[i].isCancellationRequested
       THEN /\ webviewPosts' = Append(webviewPosts, userContextFiles(i))
            /\ lookups' = [lookups EXCEPT ![i].pc = "posting"]
            /\ UNCHANGED contextFilesQueryCancellation
       ELSE /\ lookups' = finallyOf(lookups, contextFilesQueryCancellation, i)
            /\ contextFilesQueryCancellation' = Some(i)
            /\ UNCHANGED webviewPosts
    /\ UNCHANGED <<providerVars, requestVars, callVars, webviewVars, extensionVars>>

\* the search of lookup i rejects: the error is posted and the finally block
\* runs
SearchReject(i) ==
    /\ i \in DOMAIN lookups
    /\ lookups[i].pc = "searching"
    /\ webviewPosts' = Append(webviewPosts, errorsMessage(i))
    /\ lookups' = finallyOf(lookups, contextFilesQueryCancellation, i)
    /\ contextFilesQueryCancellation' = Some(i)
    /\ UNCHANGED <<providerVars, requestVars, callVars, webviewVars, extensionVars>>

\* the await of postMessage ends for lookup i and the finally block runs
PostResolve(i) ==
    /\ i \in DOMAIN lookups
    /\ lookups[i].pc = "posting"
    /\ lookups' = finallyOf(lookups, contextFilesQueryCancellation, i)
    /\ contextFilesQueryCancellation' = Some(i)
    /\ UNCHANGED <<providerVars, requestVars, callVars, webviewVars, webviewPosts,
                   extensionVars>>

NextContextFiles ==
    \/ \E kind \in QueryKinds : HandleContextFiles(kind)
    \/ \E i \in 1..MaxLookups : SearchResolve(i)
    \/ \E i \in 1..MaxLookups : SearchReject(i)
    \/ \E i \in 1..MaxLookups : PostResolve(i)

SpecContextFiles == InitContextFiles /\ [][NextContextFiles]_vars

\* ------------------------------------------------------------------------
\* createInfillingPrompt over the providers that can be made
\* ------------------------------------------------------------------------

\* a provider is about to be made, by createProviderConfig(...).create(options)
\* or by the exported constructor, and createInfillingPrompt is then called on
\* it; the constructor takes a model string
InitInfill ==
    /\ model = M_starcoder_hybrid
    /\ NoRequest
    /\ NoLookup
    /\ NoPanel
    /\ NoChat
    /\ NoInitDoer
    /\ NoCodebase
    /\ args \in [via : {"createProviderConfig", "constructor"},
                 model : ModelArguments, maxContextTokens : ContextWindows,
                 filename : {Str_a_ts}, intro : InfillIntros,
                 prefix : InfillPrefixes, suffix : InfillSuffixes]
    /\ args.via = "constructor" => args.model # Null
    /\ args.via = "createProviderConfig" => args.maxContextTokens = 2048
    /\ fn = args.via
    /\ ret = Undefined

\* createProviderConfig throws, or returns a configuration whose create makes
\* the provider of the resolved model
CreateProvider ==
    /\ fn = "createProviderConfig"
    /\ ret = Undefined
    /\ LET made == createProviderConfig(args.model, timeouts)
       IN  IF made.error # Undefined
           THEN /\ ret' = Some(made)
                /\ UNCHANGED <<model, promptChars, fn>>
           ELSE /\ model' = made.config[1].model
                /\ promptChars' = PromptCharsOf(made.config[1].maxContextTokens)
                /\ fn' = "createInfillingPrompt"
                /\ ret' = ret
    /\ UNCHANGED <<timeouts, options, snippets, tracer, requestVars, args, panelVars,
                   extensionVars>>

\* the constructor keeps the model and the context window it is given
ConstructProvider ==
    /\ fn = "constructor"
    /\ model' = args.model[1]
    /\ promptChars' = PromptCharsOf(args.maxContextTokens)
    /\ fn' = "createInfillingPrompt"
    /\ UNCHANGED <<timeouts, options, snippets, tracer, requestVars, args, ret, panelVars,
                   extensionVars>>

CreateInfillingPrompt ==
    /\ fn = "createInfillingPrompt"
    /\ ret = Undefined
    /\ ret' = Some(createInfillingPrompt(model, options, args.filename, args.intro,
                                         args.prefix, args.suffix))
    /\ UNCHANGED <<providerVars, requestVars, fn, args, panelVars, extensionVars>>

NextInfill ==
    \/ CreateProvider
    \/ ConstructProvider
    \/ CreateInfillingPrompt

SpecInfill == InitInfill /\ [][NextInfill]_vars

\* ------------------------------------------------------------------------
\* The webview panel of the chat panel provider
\* ------------------------------------------------------------------------

\* a chat panel provider without a webview panel
InitWebviewPanel ==
    /\ model = M_starcoder_hybrid
    /\ NoRequest
    /\ NoCall
    /\ NoLookup
    /\ NoPanel
    /\ NoChat
    /\ NoInitDoer
    /\ NoCodebase

\* createWebviewPanel up to its first await: the existing panel is returned,
\* or a panel is created and registerWebviewPanel is entered
CreateWebviewPanel ==
    /\ Len(panelCalls) < MaxPanelCalls
    /\ IF webviewPanel # Undefined
       THEN /\ panelCalls' =
                 Append(panelCalls,
                        newPanelCall("createWebviewPanel", webviewPanel[1], "returned"))
            /\ UNCHANGED panels
       ELSE /\ panels' = Append(panels, newPanel)
            /\ panelCalls' =
                 Append(panelCalls,
                        newPanelCall("createWebviewPanel", Len(panels) + 1,
                                     registerWebviewPanelStart(webviewPanel, webview)))
    /\ UNCHANGED <<providerVars, requestVars, callVars, lookupVars, webviewPanel, webview,
                   extensionVars>>

\* revive up to its first await: registerWebviewPanel is entered with the
\* panel the editor hands over
Revive ==
    /\ Len(panelCalls) < MaxPanelCalls
    /\ panels' = Append(panels, newPanel)
    /\ panelCalls' =
         Append(panelCalls,
                newPanelCall("revive", Len(panels) + 1,
                             registerWebviewPanelStart(webviewPanel, webview)))
    /\ UNCHANGED <<providerVars, requestVars, callVars, lookupVars, webviewPanel, webview,
                   extensionVars>>

\* setWebviewView up to its first await: with a panel the view message is
\* posted, without one createWebviewPanel is awaited first
SetWebviewView ==
    /\ Len(panelCalls) < MaxPanelCalls
    /\ IF webviewPanel # Undefined
       THEN /\ panelCalls' =
                 Append(panelCalls,
                        newPanelCall("setWebviewView", webviewPanel[1], "returned"))
            /\ PostMessages(webview, <<viewMessage>>)
            /\ UNCHANGED panels
       ELSE /\ panels' = Append(panels, newPanel)
            /\ panelCalls' =
                 Append(panelCalls,
                        newPanelCall("setWebviewView", Len(panels) + 1,
                                     registerWebviewPanelStart(webviewPanel, webview)))
            /\ UNCHANGED initVars
    /\ UNCHANGED <<providerVars, requestVars, callVars, lookupVars, webviewPanel, webview,
                   chatVars, codebaseVars>>

\* the context status aggregator reports a change: the handler the constructor
\* subscribed posts the context status
ContextStatusChanged ==
    /\ Len(panelCalls) < MaxPanelCalls
    /\ panelCalls' = Append(panelCalls, newPanelCall("onDidChangeStatus", 0, "returned"))
    /\ PostMessages(webview, <<enhancedContextMessage>>)
    /\ UNCHANGED <<providerVars, requestVars, callVars, lookupVars, panels, webviewPanel,
                   webview, chatVars, codebaseVars>>

\* the await of addWebviewViewHTML ends for call c: the panel and its webview
\* are stored, the context status is posted, the dispose and message handlers
\* are put on the panel, and the setContext command is awaited
AddWebviewViewHTMLDone(c) ==
    /\ c \in DOMAIN panelCalls
    /\ panelCalls[c].pc = "addWebviewViewHTML"
    /\ webviewPanel' = Some(panelCalls[c].panel)
    /\ webview' = Some(panelCalls[c].panel)
    /\ panels' = [panels EXCEPT ![panelCalls[c].panel].registered = TRUE]
    /\ panelCalls' = [panelCalls EXCEPT ![c].pc = "setContext"]
    /\ PostMessages(webview', <<enhancedContextMessage>>)
    /\ UNCHANGED <<providerVars, requestVars, callVars, lookupVars, chatVars,
                   codebaseVars>>

\* the await of the setContext command ends for call c, which returns its
\* panel; setWebviewView then posts the view message
SetContextDone(c) ==
    /\ c \in DOMAIN panelCalls
    /\ panelCalls[c].pc = "setContext"
    /\ panelCalls' = [panelCalls EXCEPT ![c].pc = "returned"]
    /\ PostMessages(webview,
                    IF panelCalls[c].fn = "setWebviewView" THEN <<viewMessage>> ELSE <<>>)
    /\ UNCHANGED <<providerVars, requestVars, callVars, lookupVars, panels,
                   webviewPanel, webview, chatVars, codebaseVars>>

\* panel i is closed and its onDidDispose handler runs: the completion in
\* progress is cancelled and both references are cleared
DisposePanel(i) ==
    /\ i \in DOMAIN panels
    /\ panels[i].registered
    /\ ~panels[i].disposed
    /\ chatRequests' = invokeCanceller(chatRequests, completionCanceller)
    /\ completionCanceller' = Undefined
    /\ webviewPanel' = Undefined
    /\ webview' = Undefined
    /\ panels' = [panels EXCEPT ![i].disposed = TRUE]
    /\ UNCHANGED <<providerVars, requestVars, callVars, lookupVars, panelCalls,
                   chatModel, sessionID, history, sessionCalls, initVars, codebaseVars>>

NextWebviewPanel ==
    \/ CreateWebviewPanel
    \/ Revive
    \/ SetWebviewView
    \/ ContextStatusChanged
    \/ \E c \in 1..MaxPanelCalls : AddWebviewViewHTMLDone(c)
    \/ \E c \in 1..MaxPanelCalls : SetContextDone(c)
    \/ \E i \in 1..MaxPanelCalls : DisposePanel(i)

SpecWebviewPanel == InitWebviewPanel /\ [][NextWebviewPanel]_vars

\* ------------------------------------------------------------------------
\* createCodebaseContext calls over codebases
\* ------------------------------------------------------------------------

InitCodebase ==
    /\ model = M_starcoder_hybrid
    /\ NoRequest
    /\ NoCall
    /\ NoLookup
    /\ NoPanel
    /\ NoChat
    /\ NoInitDoer
    /\ NoCodebase

\* createCodebaseContext up to its await: getRepoId returns the cached promise
\* of the codebase, or runs the lookup and caches its promise
CreateCodebaseContext(codebase) ==
    /\ Len(contextCalls) < MaxContextCalls
    /\ contextCalls' = Append(contextCalls, newContextCall(codebase))
    /\ IF memoized(repoIdCache, codebase)
       THEN UNCHANGED <<repoIdCache, remoteCalls>>
       ELSE /\ repoIdCache' = cacheSet(repoIdCache, codebase, getRepoIdStart(codebase))
            /\ remoteCalls' =
                 IF codebase # <<>> THEN Append(remoteCalls, codebase) ELSE remoteCalls
    /\ UNCHANGED <<providerVars, requestVars, callVars, panelVars, chatVars, initVars>>

\* sourcegraphClient.getRepoId answers for a codebase and the cached promise
\* resolves to the answer
RepoIdResolve(codebase, result) ==
    /\ codebase \in DOMAIN repoIdCache
    /\ repoIdCache[codebase] = "pending"
    /\ repoIdCache' = [repoIdCache EXCEPT ![codebase] = result]
    /\ UNCHANGED <<providerVars, requestVars, callVars, panelVars, chatVars, initVars,
                   remoteCalls, contextCalls>>

\* the await of call k ends: the context is made, with an embeddings search
\* client when the repository id is neither null nor an error
ContextReturn(k) ==
    /\ k \in DOMAIN contextCalls
    /\ contextCalls[k].pc = "awaiting"
    /\ repoIdCache[contextCalls[k].codebase] # "pending"
    /\ contextCalls' =
         [contextCalls EXCEPT
            ![k].pc = "returned",
            ![k].embeddingsSearch =
                embeddingsSearchOf(repoIdCache[contextCalls[k].codebase])]
    /\ UNCHANGED <<providerVars, requestVars, callVars, panelVars, chatVars, initVars,
                   repoIdCache, remoteCalls>>

NextCodebase ==
    \/ \E codebase \in Codebases : CreateCodebaseContext(codebase)
    \/ \E codebase \in Codebases : \E result \in RepoIdResults :
          RepoIdResolve(codebase, result)
    \/ \E k \in 1..MaxContextCalls : ContextReturn(k)

SpecCodebase == InitCodebase /\ [][NextCodebase]_vars

\* ------------------------------------------------------------------------
\* Chat requests, their callbacks, and the session commands
\* ------------------------------------------------------------------------

\* a chat panel provider with its panel registered and initialized, an empty
\* session and no request
InitChat ==
    /\ model = M_starcoder_hybrid
    /\ NoRequest
    /\ NoCall
    /\ NoLookup
    /\ OnePanel
    /\ SavedChat
    /\ InitDone
    /\ NoCodebase

\* handleHumanMessageSubmitted for a text that is no slash command, up to the
\* await of saveSession: the human message is added to the chat model and
\* history.saveChat is called with the transcript
HandleHumanMessageSubmitted ==
    /\ chatModel' = addHumanMessage(chatModel, Len(chatRequests) + 1)
    /\ history' = saveChat(history, chatModel')
    /\ chatRequests' =
         Append(chatRequests, newChatRequest(chatModel.sessionID, "chat", "saveChat"))
    /\ UNCHANGED <<providerVars, requestVars, callVars, panelVars, codebaseVars, initVars,
                   completionCanceller, sessionID, sessionCalls>>

\* executeRecipe after computeRecipeMessages has resolved with messages, up to
\* the await of saveSession (handleHumanMessageSubmitted takes this way for a
\* custom slash command, executeCustomCommand always)
ExecuteRecipe ==
    /\ chatModel' = addHumanMessage(chatModel, Len(chatRequests) + 1)
    /\ history' = saveChat(history, chatModel')
    /\ chatRequests' =
         Append(chatRequests, newChatRequest(chatModel.sessionID, "recipe", "saveChat"))
    /\ UNCHANGED <<providerVars, requestVars, callVars, panelVars, codebaseVars, initVars,
                   completionCanceller, sessionID, sessionCalls>>

\* handleEdit up to the awaits of generateAssistantResponse:
\* updateLastHumanMessage changes the text of the last human message, which
\* the chat model here does not hold, and the transcript is posted
HandleEdit ==
    /\ chatRequests' =
         Append(chatRequests, newChatRequest(chatModel.sessionID, "edit", "preparing"))
    /\ PostMessages(webview, <<transcriptMessage(sessionID)>>)
    /\ UNCHANGED <<providerVars, requestVars, callVars, panelVars, codebaseVars,
                   completionCanceller, chatModel, sessionID, history, sessionCalls>>

\* history.saveChat resolves for request r, with the whole history or with
\* nothing: saveSession posts the history it got and awaits the tree update
SaveChatDone(r, allHistory) ==
    /\ r \in DOMAIN chatRequests
    /\ chatRequests[r].status \in {"saveChat", "saving"}
    /\ chatRequests' =
         [chatRequests EXCEPT ![r].status = IF @ = "saveChat" THEN "updateTree" ELSE "done"]
    /\ PostMessages(webview, IF allHistory THEN <<historyMessage>> ELSE <<>>)
    /\ UNCHANGED <<providerVars, requestVars, callVars, panelVars, codebaseVars,
                   completionCanceller, chatModel, sessionID, history, sessionCalls>>

\* the tree update resolves and saveSession returns for request r: the
\* transcript is posted; handleHumanMessageSubmitted enters
\* generateAssistantResponse; executeRecipe adds the recipe's error as a bot
\* message, or calls sendLLMRequest with the recipe's prompt
UpdateTreeDone(r, recipeError) ==
    /\ r \in DOMAIN chatRequests
    /\ chatRequests[r].status = "updateTree"
    /\ IF chatRequests[r].kind = "chat"
       THEN /\ chatRequests' = [chatRequests EXCEPT ![r].status = "preparing"]
            /\ PostMessages(webview, <<transcriptMessage(sessionID)>>)
            /\ UNCHANGED <<completionCanceller, chatModel>>
       ELSE IF recipeError
       THEN /\ chatRequests' = [chatRequests EXCEPT ![r].status = "done"]
            /\ chatModel' = addBotMessage(chatModel, r)
            /\ PostMessages(webview,
                            <<transcriptMessage(sessionID), transcriptMessage(sessionID)>>)
            /\ UNCHANGED completionCanceller
       ELSE /\ chatRequests' =
                 [invokeCanceller(chatRequests, completionCanceller)
                     EXCEPT ![r].status = "running"]
            /\ completionCanceller' = Some(r)
            /\ PostMessages(webview, <<transcriptMessage(sessionID)>>)
            /\ UNCHANGED chatModel
    /\ UNCHANGED <<providerVars, requestVars, callVars, panelVars, codebaseVars,
                   sessionID, history, sessionCalls>>

\* generateAssistantResponse after makePrompt has resolved, with context limit
\* warnings or without: the warning is added as an error message by postError,
\* the transcript is posted and sendLLMRequest cancels the stored completion,
\* starts the request and stores its canceller
SendLLMRequest(r, warnings) ==
    /\ r \in DOMAIN chatRequests
    /\ chatRequests[r].status = "preparing"
    /\ chatRequests' =
         [invokeCanceller(chatRequests, completionCanceller) EXCEPT ![r].status = "running"]
    /\ completionCanceller' = Some(r)
    /\ chatModel' = IF warnings THEN addErrorAsBotMessage(chatModel, r) ELSE chatModel
    /\ PostMessages(webview,
                    (IF warnings
                     THEN <<transcriptMessage(sessionID), transcriptErrorsMessage>>
                     ELSE <<>>) \o <<transcriptMessage(sessionID)>>)
    /\ UNCHANGED <<providerVars, requestVars, callVars, panelVars, codebaseVars,
                   sessionID, history, sessionCalls>>

\* contextFilesToContextItems or makePrompt rejects for request r: the catch
\* of generateAssistantResponse posts the error, in the transcript for a rate
\* limit error, and no request is started
MakePromptReject(r, rateLimit) ==
    /\ r \in DOMAIN chatRequests
    /\ chatRequests[r].status = "preparing"
    /\ chatRequests' = [chatRequests EXCEPT ![r].status = "rejected"]
    /\ chatModel' = IF rateLimit THEN addErrorAsBotMessage(chatModel, r) ELSE chatModel
    /\ PostMessages(webview,
                    IF rateLimit
                    THEN <<transcriptMessage(sessionID), transcriptErrorsMessage>>
                    ELSE <<errorBannerMessage>>)
    /\ UNCHANGED <<providerVars, requestVars, callVars, panelVars, codebaseVars,
                   completionCanceller, sessionID, history, sessionCalls>>

\* onChange of request r: the update callback posts the transcript with the
\* message in progress
OnChange(r) ==
    /\ r \in DOMAIN chatRequests
    /\ chatRequests[r].status = "running"
    /\ chatRequests[r].changes < MaxChanges
    /\ chatRequests' = [chatRequests EXCEPT ![r].changes = @ + 1]
    /\ PostMessages(webview, <<transcriptMessage(sessionID)>>)
    /\ UNCHANGED <<providerVars, requestVars, callVars, panelVars, codebaseVars,
                   completionCanceller, chatModel, sessionID, history, sessionCalls>>

\* onComplete of request r: the stored canceller is cleared and the close
\* callback starts addBotMessageWithGuardrails, whose annotation is awaited
OnComplete(r) ==
    /\ r \in DOMAIN chatRequests
    /\ chatRequests[r].status = "running"
    /\ completionCanceller' = Undefined
    /\ chatRequests' = [chatRequests EXCEPT ![r].status = "guardrails"]
    /\ UNCHANGED <<providerVars, requestVars, callVars, panelVars, codebaseVars, initVars,
                   chatModel, sessionID, history, sessionCalls>>

\* the annotation of request r's response is there: the bot message is added
\* to this.chatModel, saveSession calls history.saveChat and the transcript is
\* posted
GuardrailsDone(r) ==
    /\ r \in DOMAIN chatRequests
    /\ chatRequests[r].status = "guardrails"
    /\ chatModel' = addBotMessage(chatModel, r)
    /\ history' = saveChat(history, chatModel')
    /\ chatRequests' = [chatRequests EXCEPT ![r].status = "saving"]
    /\ PostMessages(webview, <<transcriptMessage(sessionID)>>)
    /\ UNCHANGED <<providerVars, requestVars, callVars, panelVars, codebaseVars,
                   completionCanceller, sessionID, sessionCalls>>

\* onError of request r, with an abort error or another one:
\* cancelInProgressCompletion runs, the partial response is added to
\* this.chatModel for an abort error, postError adds and posts any other
\* error, and the transcript is posted
OnError(r, abortError) ==
    /\ r \in DOMAIN chatRequests
    /\ chatRequests[r].status = "running"
    /\ chatRequests' =
         [invokeCanceller(chatRequests, completionCanceller) EXCEPT ![r].status = "failed"]
    /\ completionCanceller' = Undefined
    /\ chatModel' =
         IF abortError
         THEN addBotMessage(chatModel, r)
         ELSE addErrorAsBotMessage(chatModel, r)
    /\ PostMessages(webview,
                    (IF abortError
                     THEN <<>>
                     ELSE <<transcriptMessage(sessionID), transcriptErrorsMessage>>)
                        \o <<transcriptMessage(sessionID)>>)
    /\ UNCHANGED <<providerVars, requestVars, callVars, panelVars, codebaseVars,
                   sessionID, history, sessionCalls>>

\* computeRecipeMessages rejects in executeRecipe: the catch posts the error,
\* no human message is added and no request is started
ExecuteRecipeReject ==
    /\ PostMessages(webview, <<errorBannerMessage>>)
    /\ UNCHANGED <<providerVars, requestVars, callVars, panelVars, codebaseVars,
                   completionCanceller, chatRequests, chatModel, sessionID, history,
                   sessionCalls>>

\* saveSession rejects for request r (history.saveChat or the tree update):
\* the catch of executeRecipe posts the error; handleHumanMessageSubmitted and
\* the saveSession that addBotMessageWithGuardrails does not await have no
\* catch, and the handler ends
SaveSessionReject(r) ==
    /\ r \in DOMAIN chatRequests
    /\ chatRequests[r].status \in {"saveChat", "updateTree", "saving"}
    /\ chatRequests' =
         [chatRequests EXCEPT ![r].status = IF @ = "saving" THEN "done" ELSE "rejected"]
    /\ PostMessages(webview,
                    IF chatRequests[r].kind = "recipe" /\ chatRequests[r].status # "saving"
                    THEN <<errorBannerMessage>>
                    ELSE <<>>)
    /\ UNCHANGED <<providerVars, requestVars, callVars, panelVars, codebaseVars,
                   completionCanceller, chatModel, sessionID, history, sessionCalls>>

\* triggerNotice: the notice is posted
TriggerNotice ==
    /\ PostMessages(webview, <<noticeMessage>>)
    /\ UNCHANGED <<providerVars, requestVars, callVars, panelVars, codebaseVars,
                   completionCanceller, chatRequests, chatModel, sessionID, history,
                   sessionCalls>>

\* the ready command of the webview: postViewConfig posts the configuration
\* when getFullConfig has resolved
PostViewConfig ==
    /\ PostMessages(webview, <<configMessage>>)
    /\ UNCHANGED <<providerVars, requestVars, callVars, panelVars, codebaseVars,
                   completionCanceller, chatRequests, chatModel, sessionID, history,
                   sessionCalls>>

\* the get-chat-models command of the webview, for a user who is logged in:
\* postChatModels posts the chat models when the feature flag has resolved
GetChatModels ==
    /\ PostMessages(webview, <<chatModelsMessage>>)
    /\ UNCHANGED <<providerVars, requestVars, callVars, panelVars, codebaseVars,
                   completionCanceller, chatRequests, chatModel, sessionID, history,
                   sessionCalls>>

\* a command of the webview that onDidReceiveMessage does not know: the default
\* branch posts the error
InvalidCommand ==
    /\ PostMessages(webview, <<errorBannerMessage>>)
    /\ UNCHANGED <<providerVars, requestVars, callVars, panelVars, codebaseVars,
                   completionCanceller, chatRequests, chatModel, sessionID, history,
                   sessionCalls>>

\* the abort command of the webview
AbortCommand ==
    /\ chatRequests' = invokeCanceller(chatRequests, completionCanceller)
    /\ completionCanceller' = Undefined
    /\ UNCHANGED <<providerVars, requestVars, callVars, panelVars, codebaseVars, initVars,
                   chatModel, sessionID, history, sessionCalls>>

\* restoreSession up to its await: nothing for an id the history does not
\* hold, else the completion in progress is cancelled and the chat model of the
\* transcript is awaited
RestoreSession(id) ==
    /\ Len(sessionCalls) < MaxSessionCalls
    /\ IF getChat(history, id) = Undefined
       THEN /\ sessionCalls' =
                 Append(sessionCalls, newSessionCall("restoreSession", id, "returned", <<>>))
            /\ UNCHANGED <<chatRequests, completionCanceller>>
       ELSE /\ sessionCalls' =
                 Append(sessionCalls,
                        newSessionCall("restoreSession", id, "awaiting",
                                       getChat(history, id)[1]))
            /\ chatRequests' = invokeCanceller(chatRequests, completionCanceller)
            /\ completionCanceller' = Undefined
    /\ UNCHANGED <<providerVars, requestVars, callVars, panelVars, codebaseVars, initVars,
                   chatModel, sessionID, history>>

\* clearAndRestartSession (the reset command, and handleHumanMessageSubmitted
\* for /reset) up to the await of saveSession: nothing for an empty chat, else
\* the completion in progress is cancelled and history.saveChat is called
ClearAndRestartSession ==
    /\ Len(sessionCalls) < MaxSessionCalls
    /\ IF chatModel.messages = <<>>
       THEN /\ sessionCalls' =
                 Append(sessionCalls,
                        newSessionCall("clearAndRestartSession", 0, "returned", <<>>))
            /\ UNCHANGED <<chatRequests, completionCanceller, history>>
       ELSE /\ sessionCalls' =
                 Append(sessionCalls,
                        newSessionCall("clearAndRestartSession", 0, "saveChat", <<>>))
            /\ chatRequests' = invokeCanceller(chatRequests, completionCanceller)
            /\ completionCanceller' = Undefined
            /\ history' = saveChat(history, chatModel)
    /\ UNCHANGED <<providerVars, requestVars, callVars, panelVars, codebaseVars, initVars,
                   chatModel, sessionID>>

\* saveSession called on its own, outside a chat request and outside a session
\* command, up to its first await: history.saveChat is called with the
\* transcript of the chat model
SaveSession ==
    /\ sessionCalls' =
         Append(sessionCalls, newSessionCall("saveSession", 0, "saveChat", <<>>))
    /\ history' = saveChat(history, chatModel)
    /\ UNCHANGED <<providerVars, requestVars, callVars, panelVars, codebaseVars, initVars,
                   completionCanceller, chatRequests, chatModel, sessionID>>

\* the tree update that saveSession call c awaits last is done
SaveSessionDone(c) ==
    /\ c \in DOMAIN sessionCalls
    /\ sessionCalls[c].pc = "updateTree"
    /\ sessionCalls[c].fn = "saveSession"
    /\ sessionCalls' = [sessionCalls EXCEPT ![c].pc = "done"]
    /\ UNCHANGED <<providerVars, requestVars, callVars, panelVars, codebaseVars, initVars,
                   completionCanceller, chatRequests, chatModel, sessionID, history>>

\* history.saveChat resolves for session call c, with the whole history or
\* with nothing: saveSession posts the history it got and awaits the tree
\* update; onInitialized goes on to postCodyCommands after it
SessionSaveChatDone(c, allHistory) ==
    /\ c \in DOMAIN sessionCalls
    /\ sessionCalls[c].pc = "saveChat"
    /\ sessionCalls' =
         [sessionCalls EXCEPT ![c].pc =
             IF sessionCalls[c].fn = "onInitialized" THEN "commands"
             ELSE IF sessionCalls[c].fn = "saveSession" THEN "updateTree"
             ELSE "awaiting"]
    /\ PostMessages(webview, IF allHistory THEN <<historyMessage>> ELSE <<>>)
    /\ UNCHANGED <<providerVars, requestVars, callVars, panelVars, codebaseVars,
                   completionCanceller, chatRequests, chatModel, sessionID, history>>

\* the await of session call c ends: the chat model and the session id are
\* replaced, by the restored session or by a new one, and the transcript is
\* posted
SessionCallDone(c) ==
    /\ c \in DOMAIN sessionCalls
    /\ sessionCalls[c].pc = "awaiting"
    /\ sessionCalls[c].fn # "onInitialized"
    /\ chatModel' =
         IF sessionCalls[c].fn = "restoreSession"
         THEN newChatModelfromTranscriptJSON(sessionCalls[c].id, sessionCalls[c].transcript)
         ELSE newChatModel(freshSessionID(history, chatModel))
    /\ sessionID' = chatModel'.sessionID
    /\ sessionCalls' = [sessionCalls EXCEPT ![c].pc = "done"]
    /\ PostMessages(webview, <<transcriptMessage(sessionID')>>)
    /\ UNCHANGED <<providerVars, requestVars, callVars, panelVars, codebaseVars,
                   completionCanceller, chatRequests, history>>

\* a chat panel provider with its panel registered, whose webview has not yet
\* reported that it is initialized
InitUninitialized ==
    /\ model = M_starcoder_hybrid
    /\ NoRequest
    /\ NoCall
    /\ NoLookup
    /\ OnePanel
    /\ NoChat
    /\ PanelInitDoer
    /\ NoCodebase

\* onInitialized up to its first await, run for the webview's 'initialized'
\* message: the empty transcript with the chat id is posted by
\* this.webview?.postMessage
OnInitialized ==
    /\ Len(sessionCalls) < MaxSessionCalls
    /\ sessionCalls' =
         Append(sessionCalls, newSessionCall("onInitialized", 0, "awaiting", <<>>))
    /\ webviewMessages' =
         webviewPostMessage(webview, webviewMessages, <<transcriptMessage(sessionID)>>,
                            TRUE, initDoer.initialized)
    /\ UNCHANGED <<providerVars, requestVars, callVars, panelVars, codebaseVars,
                   completionCanceller, chatRequests, chatModel, sessionID, history,
                   initDoer>>

\* onInitialized call c after its first awaits: postChatModels posts the chat
\* models of a user who is logged in, and saveSession calls history.saveChat
PostChatModelsDone(c, isLoggedIn) ==
    /\ c \in DOMAIN sessionCalls
    /\ sessionCalls[c].pc = "awaiting"
    /\ sessionCalls[c].fn = "onInitialized"
    /\ sessionCalls' = [sessionCalls EXCEPT ![c].pc = "saveChat"]
    /\ history' = saveChat(history, chatModel)
    /\ PostMessages(webview, IF isLoggedIn THEN <<chatModelsMessage>> ELSE <<>>)
    /\ UNCHANGED <<providerVars, requestVars, callVars, panelVars, codebaseVars,
                   completionCanceller, chatRequests, chatModel, sessionID>>

\* the end of onInitialized call c: postCodyCommands posts the commands, then
\* signalInitialized runs what the InitDoer holds, in the order it was given
SignalInitialized(c) ==
    /\ c \in DOMAIN sessionCalls
    /\ sessionCalls[c].pc = "commands"
    /\ sessionCalls[c].fn = "onInitialized"
    /\ sessionCalls' = [sessionCalls EXCEPT ![c].pc = "done"]
    /\ LET posted == <<customPromptsMessage>>
           held == postMessageWaiting(initDoer, posted)
       IN  /\ initDoer' = [initialized |-> TRUE, waiting |-> <<>>]
           /\ webviewMessages' =
                webviewPostMessage(webview,
                                   postMessageHanded(initDoer, webview, webviewMessages, posted),
                                   held.waiting, FALSE, TRUE)
    /\ UNCHANGED <<providerVars, requestVars, callVars, panelVars, codebaseVars,
                   completionCanceller, chatRequests, chatModel, sessionID, history>>

\* the chat requests of every kind with their callbacks and rejections, whose
\* history is saved, without the session commands
NextCommands ==
    \/ Len(chatRequests) < MaxSessionRequests /\ HandleHumanMessageSubmitted
    \/ Len(chatRequests) < MaxSessionRequests /\ ExecuteRecipe
    \/ Len(chatRequests) < MaxSessionRequests /\ HandleEdit
    \/ \E r \in 1..MaxSessionRequests : SaveChatDone(r, TRUE)
    \/ \E r \in 1..MaxSessionRequests : \E recipeError \in BOOLEAN :
          UpdateTreeDone(r, recipeError)
    \/ \E r \in 1..MaxSessionRequests : \E warnings \in BOOLEAN : SendLLMRequest(r, warnings)
    \/ \E r \in 1..MaxSessionRequests : \E rateLimit \in BOOLEAN : MakePromptReject(r, rateLimit)
    \/ \E r \in 1..MaxSessionRequests : OnChange(r)
    \/ \E r \in 1..MaxSessionRequests : OnComplete(r)
    \/ \E r \in 1..MaxSessionRequests : GuardrailsDone(r)
    \/ \E r \in 1..MaxSessionRequests : \E abortError \in BOOLEAN : OnError(r, abortError)
    \/ AbortCommand
    \/ postedCount(initDoer, webviewMessages, {"errors"}) < MaxWebviewCommands
          /\ ExecuteRecipeReject
    \/ \E r \in 1..MaxSessionRequests : SaveSessionReject(r)

SpecCommands == InitChat /\ [][NextCommands]_vars

\* chat questions one after the other, whose history is saved and whose
\* prompt has no warning, with their callbacks
NextRequests ==
    \/ Len(chatRequests) < MaxChatRequests /\ HandleHumanMessageSubmitted
    \/ \E r \in 1..MaxChatRequests : SaveChatDone(r, TRUE)
    \/ \E r \in 1..MaxChatRequests : UpdateTreeDone(r, FALSE)
    \/ \E r \in 1..MaxChatRequests : SendLLMRequest(r, FALSE)
    \/ \E r \in 1..MaxChatRequests : OnComplete(r)
    \/ \E r \in 1..MaxChatRequests : GuardrailsDone(r)
    \/ \E r \in 1..MaxChatRequests : \E abortError \in BOOLEAN : OnError(r, abortError)
    \/ AbortCommand

SpecRequests == InitChat /\ [][NextRequests]_vars

\* chat questions with their callbacks and the session commands
NextChat ==
    \/ Len(chatRequests) < MaxSessionRequests /\ HandleHumanMessageSubmitted
    \/ \E r \in 1..MaxSessionRequests : SaveChatDone(r, TRUE)
    \/ \E r \in 1..MaxSessionRequests : UpdateTreeDone(r, FALSE)
    \/ \E r \in 1..MaxSessionRequests : SendLLMRequest(r, FALSE)
    \/ \E r \in 1..MaxSessionRequests : OnComplete(r)
    \/ \E r \in 1..MaxSessionRequests : GuardrailsDone(r)
    \/ \E r \in 1..MaxSessionRequests : \E abortError \in BOOLEAN : OnError(r, abortError)
    \/ \E id \in RestoredIds : RestoreSession(id)
    \/ ClearAndRestartSession
    \/ \E c \in 1..MaxSessionCalls : SessionSaveChatDone(c, TRUE)
    \/ \E c \in 1..MaxSessionCalls : SessionCallDone(c)

SpecChat == InitChat /\ [][NextChat]_vars

\* chat requests and their completion while panels are closed and registered
NextPanelClose ==
    \/ Len(chatRequests) < MaxSessionRequests /\ HandleHumanMessageSubmitted
    \/ \E r \in 1..MaxSessionRequests : \E allHistory \in BOOLEAN : SaveChatDone(r, allHistory)
    \/ \E r \in 1..MaxSessionRequests : UpdateTreeDone(r, FALSE)
    \/ \E r \in 1..MaxSessionRequests : SendLLMRequest(r, FALSE)
    \/ \E r \in 1..MaxSessionRequests : OnComplete(r)
    \/ Revive
    \/ \E c \in 1..MaxPanelCalls : AddWebviewViewHTMLDone(c)
    \/ \E c \in 1..MaxPanelCalls : SetContextDone(c)
    \/ \E i \in 1..MaxPanelCalls : DisposePanel(i)

SpecPanelClose == InitChat /\ [][NextPanelClose]_vars

\* the types of the messages that the commands outside a chat request post
CommandMessages == {"notice", "config", "chatModels", "errors"}

\* the webview's initialization among chat requests and other commands
NextInitialize ==
    \/ OnInitialized
    \/ \E c \in 1..MaxSessionCalls : \E isLoggedIn \in BOOLEAN : PostChatModelsDone(c, isLoggedIn)
    \/ \E c \in 1..MaxSessionCalls : \E allHistory \in BOOLEAN :
          SessionSaveChatDone(c, allHistory)
    \/ \E c \in 1..MaxSessionCalls : SignalInitialized(c)
    \/ Len(sessionCalls) < MaxSessionCalls /\ SaveSession
    \/ \E c \in 1..MaxSessionCalls : SaveSessionDone(c)
    \/ Len(chatRequests) < MaxSessionRequests /\ HandleHumanMessageSubmitted
    \/ \E r \in 1..MaxSessionRequests : \E allHistory \in BOOLEAN : SaveChatDone(r, allHistory)
    \/ \E r \in 1..MaxSessionRequests : UpdateTreeDone(r, FALSE)
    \/ postedCount(initDoer, webviewMessages, CommandMessages) < MaxWebviewCommands
          /\ TriggerNotice
    \/ postedCount(initDoer, webviewMessages, CommandMessages) < MaxWebviewCommands
          /\ PostViewConfig
    \/ postedCount(initDoer, webviewMessages, CommandMessages) < MaxWebviewCommands
          /\ GetChatModels
    \/ postedCount(initDoer, webviewMessages, CommandMessages) < MaxWebviewCommands
          /\ InvalidCommand

SpecInitialize == InitUninitialized /\ [][NextInitialize]_vars

\* getEnhancedContext over the outcomes of its searches
InitEnhancedContext ==
    /\ model = M_starcoder_hybrid
    /\ NoRequest
    /\ NoLookup
    /\ NoPanel
    /\ NoChat
    /\ NoInitDoer
    /\ NoCodebase
    /\ fn = "getEnhancedContext"
    /\ args \in [readme : ReadmeOutcomes, local : SearchOutcomes, remote : SearchOutcomes,
                 symf : SearchOutcomes, priority : PriorityKinds,
                 readmeAgain : ReadmeOutcomes]
    /\ ret = Undefined

GetEnhancedContext ==
    /\ fn = "getEnhancedContext"
    /\ ret = Undefined
    /\ ret' = Some(getEnhancedContext(args))
    /\ UNCHANGED <<providerVars, aborted, tracerLog, gc, requestParams, fetches,
                   completions, readyCalls, promptPc, prompt, calls, fn, args,
                   panelVars, extensionVars>>

NextEnhancedContext == GetEnhancedContext

SpecEnhancedContext == InitEnhancedContext /\ [][NextEnhancedContext]_vars

\* ------------------------------------------------------------------------
\* Properties
\* ------------------------------------------------------------------------

\* generateCompletions took its zero-timeout return
ZeroTimeoutReturn ==
    requestParams # Undefined /\ requestParams[1].timeoutMs = 0

\* the samples whose items are in a list of completions
SamplesIn(list) == {list[k] : k \in 1..Len(list)}

\* C1: onCompletionReady is invoked at most once per generateCompletions call;
\* the list it receives holds exactly n items, or none on the zero-timeout
\* return; it is never invoked while fewer than n items are aggregated.
C1_ReadyAtMostOnceWithN ==
    /\ Len(readyCalls) <= 1
    /\ \A k \in 1..Len(readyCalls) :
          \/ Len(readyCalls[k]) = options.n
          \/ readyCalls[k] = <<>> /\ ZeroTimeoutReturn
    /\ (readyCalls # <<>> /\ ~ZeroTimeoutReturn) => Len(completions) >= options.n

\* C1 witness: the callback ran once with n = 2 items and a further item was
\* aggregated after it without a second call.
C1_Witness ==
    /\ options.n = 2
    /\ Len(readyCalls) = 1
    /\ Len(readyCalls[1]) = 2
    /\ Len(completions) > 2

\* every sample fetch ran to its end having delivered exactly one item
AllSucceeded ==
    /\ gc \in {"awaiting", "resolved"}
    /\ \A i \in DOMAIN fetches :
          fetches[i].status = "done" /\ fetches[i].delivered = 1

\* C2: when all n fetches have succeeded with one item each and the signal is
\* not cancelled, onCompletionReady has been invoked exactly once, with the n
\* items of the n samples, whatever their order; it is never invoked with
\* 1..n-1 items.
C2_AllSucceedReportsOnce ==
    /\ (AllSucceeded /\ ~aborted) =>
          /\ Len(readyCalls) = 1
          /\ Len(readyCalls[1]) = options.n
          /\ SamplesIn(readyCalls[1]) = 1..options.n
    /\ \A k \in 1..Len(readyCalls) : Len(readyCalls[k]) \notin 1..(options.n - 1)

\* C2 witness: two samples succeeded, the second one first, and the callback
\* received both items in that order.
C2_Witness ==
    /\ AllSucceeded
    /\ ~aborted
    /\ options.n = 2
    /\ readyCalls = << <<2, 1>> >>

\* C3 (as claimed): once the shared signal is triggered onCompletionReady is
\* not invoked any more, and a call that is awaiting its fetches when the
\* signal is triggered goes on to resolve.
C3_NoReadyAfterAbort ==
    /\ [][aborted => readyCalls' = readyCalls]_vars
    /\ ((aborted /\ gc = "awaiting") ~> (gc = "resolved"))

\* C4 (as claimed): when generateCompletions has settled without the signal
\* being cancelled, every one of the n attempts has contributed an item to the
\* list onCompletionReady received, or the caller was given an error.
C4_NoSilentLoss ==
    (gc \in {"resolved", "rejected"} /\ ~aborted /\ ~ZeroTimeoutReturn) =>
        \/ gc = "rejected"
        \/ /\ readyCalls # <<>>
           /\ \A i \in 1..options.n : i \in SamplesIn(readyCalls[1])

\* C5: the prompt createPrompt returns is never longer than the character
\* budget: the model's context tokens less the 256 response tokens, at the
\* fixed number of characters per token.
C5_PromptWithinBudget ==
    promptPc = "done" =>
        Len(prompt[1]) <= (getMaxContextTokens(model) - 256) * CHARS_PER_TOKEN

\* C5 witness: a snippet was left out because its candidate did not fit, and
\* the prompt returned is a non-empty candidate within the budget.
C5_Witness ==
    /\ promptPc = "done"
    /\ snippets # <<>>
    /\ Len(candidateOf(model, options, snippets, Len(snippets))) >= promptChars
    /\ prompt[1] # <<>>

\* the zero-snippet candidate does not fit the budget
ZeroCandidateOverBudget ==
    Len(candidateOf(model, options, snippets, 0)) >= promptChars

\* C6 (as claimed): when the zero-snippet candidate does not fit the budget,
\* createPrompt returns that candidate.
C6_ReturnsZeroCandidate ==
    (promptPc = "done" /\ ZeroCandidateOverBudget) =>
        prompt[1] = candidateOf(model, options, snippets, 0)

\* C6 (amended): when the zero-snippet candidate does not fit the budget,
\* createPrompt returns the empty string, without failing.
C6_ReturnsEmptyPrompt ==
    (promptPc = "done" /\ ZeroCandidateOverBudget) => prompt[1] = <<>>

\* C6 witness: the zero-snippet candidate of a StarCoder prompt is exactly as
\* long as the budget, and the call returned the empty string.
C6_Witness ==
    /\ promptPc = "done"
    /\ isStarCoderFamily(model)
    /\ Len(candidateOf(model, options, snippets, 0)) = promptChars
    /\ prompt = Some(<<>>)

\* the timeout override the configuration holds for the active mode
ActiveOverride ==
    IF options.multiline \/ options.dynamicMultilineCompletions \/ options.hotStreak
    THEN timeouts.multiline
    ELSE timeouts.singleline

\* C7: a call whose resolved timeout is exactly 0 invokes onCompletionReady once
\* with the empty list, dispatches no fetch and does not call the tracer.
C7_ZeroTimeoutShortCircuit ==
    ZeroTimeoutReturn =>
        /\ readyCalls = << <<>> >>
        /\ fetches = <<>>
        /\ tracerLog = <<>>
        /\ gc = "resolved"

\* C8 (as claimed): when the override configured for the active mode is 0, the
\* call completes at once with onCompletionReady([]) and no backend call.
C8_ZeroOverrideDisablesMode ==
    (gc # "idle" /\ ActiveOverride = Some(0)) =>
        /\ readyCalls = << <<>> >>
        /\ fetches = <<>>
        /\ gc = "resolved"

\* C9 (as claimed): the dispatched fetches carry the multiline override when
\* extended generation is active and the override is configured, the
\* singleline override when it is not active and that override is configured,
\* and the preset's timeout otherwise.
C9_TimeoutPrecedence ==
    fetches # <<>> =>
        requestParams[1].timeoutMs =
            IF ActiveOverride # Undefined
            THEN ActiveOverride[1]
            ELSE IF options.multiline \/ options.dynamicMultilineCompletions
                    \/ options.hotStreak
                 THEN 15000 ELSE 5000

\* C10 (as claimed): without any of the three flags the request carries the
\* single-line preset (5000 ms, 30 tokens, stop at a line break); with one of
\* them and no dynamic multiline it carries the multi-line preset (15000 ms,
\* 256 tokens, stop at a blank line).
C10_PresetSelectionExact ==
    requestParams # Undefined =>
        LET p == requestParams[1]
            ext == options.multiline \/ options.dynamicMultilineCompletions
                     \/ options.hotStreak
        IN  /\ ~ext =>
                  /\ p.timeoutMs = 5000
                  /\ p.maxTokensToSample = 30
                  /\ p.stopSequences = Some(<<"\n">>)
            /\ (ext /\ ~options.dynamicMultilineCompletions) =>
                  /\ p.timeoutMs = 15000
                  /\ p.maxTokensToSample = 256
                  /\ p.stopSequences = Some(<<"\n\n", "\n\r\n">>)

\* C10 (amended): the preset is selected by (multiline OR dynamic multiline OR
\* hot streak): the request carries the selected preset's token limit and stop
\* sequences, and the preset's timeout whenever no timeout override is
\* configured for the active mode.
C10_PresetSelection ==
    requestParams # Undefined =>
        LET p == requestParams[1]
            ext == options.multiline \/ options.dynamicMultilineCompletions
                     \/ options.hotStreak
        IN  /\ ~ext =>
                  /\ ActiveOverride = Undefined => p.timeoutMs = 5000
                  /\ p.maxTokensToSample = 30
                  /\ p.stopSequences = Some(<<"\n">>)
            /\ (ext /\ ~options.dynamicMultilineCompletions) =>
                  /\ ActiveOverride = Undefined => p.timeoutMs = 15000
                  /\ p.maxTokensToSample = 256
                  /\ p.stopSequences = Some(<<"\n\n", "\n\r\n">>)

\* C10 witness: a request with only the hot-streak flag was dispatched with the
\* multi-line preset.
C10_Witness ==
    /\ gc = "awaiting"
    /\ options.hotStreak
    /\ ~options.multiline
    /\ ~options.dynamicMultilineCompletions
    /\ timeouts.multiline = Undefined
    /\ requestParams[1].timeoutMs = 15000
    /\ requestParams[1].maxTokensToSample = 256
    /\ requestParams[1].stopSequences = Some(<<"\n\n", "\n\r\n">>)

\* C11: with dynamicMultilineCompletions enabled the dispatched request carries
\* timeout 15000 ms, maxTokensToSample 256 and no stop sequences, and all n
\* fetches go through the dynamic-multiline entry point; with the flag disabled
\* all n fetches go through the standard entry point.
C11_DynamicMultilineDispatch ==
    gc = "awaiting" =>
        /\ Len(fetches) = options.n
        /\ IF options.dynamicMultilineCompletions
           THEN /\ requestParams[1].timeoutMs = 15000
                /\ requestParams[1].maxTokensToSample = 256
                /\ requestParams[1].stopSequences = Undefined
                /\ \A i \in DOMAIN fetches :
                       fetches[i].impl = "fetchAndProcessDynamicMultilineCompletions"
           ELSE \A i \in DOMAIN fetches : fetches[i].impl = "fetchAndProcessCompletions"

\* a dynamic-multiline request with a configured multi-line timeout and more
\* than one sample has been dispatched
C11_Witness ==
    /\ gc = "awaiting"
    /\ options.dynamicMultilineCompletions
    /\ timeouts.multiline = Some(7000)
    /\ options.n > 1
    /\ Len(fetches) = options.n

\* C12: for starcoder-hybrid the request's model is the 16b model exactly when
\* the multiline flag is set and the 7b model otherwise, whatever hotStreak and
\* dynamicMultilineCompletions are; for every other configured model it is that
\* model's table entry.
C12_EffectiveModel ==
    requestParams # Undefined =>
        IF model = M_starcoder_hybrid
        THEN /\ (requestParams[1].model = MODEL_MAP[M_starcoder_16b]) <=> options.multiline
             /\ ~options.multiline => requestParams[1].model = MODEL_MAP[M_starcoder_7b]
        ELSE requestParams[1].model = MODEL_MAP[model]

\* a hybrid request in extended generation only because of hotStreak was sent
\* with the 7b model
C12_Witness ==
    /\ gc = "awaiting"
    /\ model = M_starcoder_hybrid
    /\ ~options.multiline
    /\ options.hotStreak
    /\ requestParams[1].maxTokensToSample = MAX_RESPONSE_TOKENS
    /\ requestParams[1].model = MODEL_MAP[M_starcoder_7b]

\* C13: createProviderConfig fails with an error naming the offending string
\* for every model string that is non-empty, not the hybrid id and not a key of
\* the known-model table; for null and "" it resolves to the hybrid meta-model;
\* for every known id the resolved model equals the input; no other string is
\* given a default.
C13_UnknownModelRejected ==
    (fn = "createProviderConfig" /\ ret # Undefined) =>
        LET m == args.model
            r == ret[1]
        IN  IF m = Null \/ m = Some(<<>>)
            THEN r.error = Undefined /\ r.config[1].model = M_starcoder_hybrid
            ELSE IF m[1] \in FireworksModel
            THEN r.error = Undefined /\ r.config[1].model = m[1]
            ELSE /\ r.config = Undefined
                 /\ r.error # Undefined
                 /\ Includes(r.error[1], m[1])

\* a name inherited from Object.prototype was rejected with an error naming it
C13_Witness ==
    /\ fn = "createProviderConfig"
    /\ args.model = Some(Str_toString)
    /\ ret # Undefined
    /\ ret[1].error # Undefined
    /\ Includes(ret[1].error[1], Str_toString)

\* C14: the retained suffix is the part of the suffix from its first line break
\* (inclusive) to its end, and is empty when the suffix has no line break;
\* "abc\ndef" gives "\ndef".
C14_SuffixTruncation ==
    (fn = "getSuffixAfterFirstNewline" /\ ret # Undefined) =>
        LET s == args.suffix
            r == ret[1]
        IN  /\ (\A i \in 1..Len(s) : s[i] # "\n") => r = <<>>
            /\ (\E i \in 1..Len(s) : s[i] = "\n") =>
                   \E k \in 1..Len(s) :
                       /\ s[k] = "\n"
                       /\ \A j \in 1..(k - 1) : s[j] # "\n"
                       /\ r = SubSeq(s, k, Len(s))
            /\ s = <<"a", "b", "c", "\n", "d", "e", "f">> => r = <<"\n", "d", "e", "f">>

\* a suffix with two line breaks was cut at the first one, which is kept
C14_Witness ==
    /\ fn = "getSuffixAfterFirstNewline"
    /\ args.suffix = <<"a", "\n", "b", "\n">>
    /\ ret = Some(<<"\n", "b", "\n">>)

\* the suffix section of a prompt p of model m holds exactly the text s
SuffixSectionIs(m, p, s) ==
    IF isStarCoderFamily(m) THEN EndsWith(p, FimSuffix \o s \o FimMiddle)
    ELSE IF isLlamaCode(m) THEN EndsWith(p, LlamaSuf \o s \o LlamaMid)
    ELSE Includes(p, CLOSING_CODE_TAG \o s \o InstTail)

\* the suffix has text on the cursor line, before its first line break
HasCursorLineRemainder(s) == s # <<>> /\ s[1] # "\n"

\* C15 (as claimed): for every family, StarCoder, Llama-code and instruct, the
\* suffix text in the built prompt is the truncated suffix, and the whole suffix
\* with the cursor line's remainder does not appear in the prompt.
C15_SuffixTruncatedEveryFamily ==
    (promptPc = "done" /\ prompt[1] # <<>>) =>
        /\ SuffixSectionIs(model, prompt[1],
                           getSuffixAfterFirstNewline(options.docContext.suffix))
        /\ HasCursorLineRemainder(options.docContext.suffix) =>
               ~Includes(prompt[1], options.docContext.suffix)

\* C15 (amended): for the StarCoder and Llama-code families the suffix text in
\* the built prompt is the truncated suffix, without the cursor line's
\* remainder; the instruct prompt of mistral-7b-instruct-4k holds the whole
\* suffix, cursor line's remainder included.
C15_SuffixTruncatedFimFamilies ==
    (promptPc = "done" /\ prompt[1] # <<>>) =>
        IF isStarCoderFamily(model) \/ isLlamaCode(model)
        THEN /\ SuffixSectionIs(model, prompt[1],
                                getSuffixAfterFirstNewline(options.docContext.suffix))
             /\ HasCursorLineRemainder(options.docContext.suffix) =>
                    ~Includes(prompt[1], options.docContext.suffix)
        ELSE SuffixSectionIs(model, prompt[1], options.docContext.suffix)

\* C15 witness: a Llama-code prompt was built for a suffix with text on the
\* cursor line, and that text is not in it
C15_Witness ==
    /\ promptPc = "done"
    /\ isLlamaCode(model)
    /\ options.docContext.suffix = <<"a", "b", "c", "\n", "d", "e", "f">>
    /\ prompt[1] # <<>>
    /\ EndsWith(prompt[1], LlamaSuf \o <<"\n", "d", "e", "f">> \o LlamaMid)
    /\ ~Includes(prompt[1], <<"a", "b", "c">>)

\* the text that opens a Path header
PathMark == <<"P", "a", "t", "h", ":">>

\* C16 (as claimed): for every document language, with or without a language
\* profile, a StarCoder prompt has no Path header line and a prompt of any other
\* family has a line with the header "Path: <file name>".
C16_PathHeaderByFamily ==
    (promptPc = "done" /\ prompt[1] # <<>>) =>
        IF isStarCoderFamily(model)
        THEN ~Includes(prompt[1], PathMark)
        ELSE Includes(prompt[1], PathHeader \o options.document.fileName \o NL)

\* the models whose id starts with "starcoder", and with "llama-code"
StarCoderModels ==
    {M_starcoder_hybrid, M_starcoder_16b, M_starcoder_7b, M_starcoder_3b, M_starcoder_1b}
LlamaCodeModels ==
    {M_llama_code_7b, M_llama_code_13b, M_llama_code_13b_instruct}

\* the intro string of the pass that includes the first k snippets
IntroOfPass(k) ==
    introStringOf(
        initialIntro(model, options) \o [j \in 1..k |-> snippetIntro(snippets[j])],
        getLanguageConfig(options.document.languageId))

\* C17: the StarCoder prompt is exactly "<filename>" filename "<fim_prefix>"
\* intro prefix "<fim_suffix>" truncated-suffix "<fim_middle>"; the Llama-code
\* prompt is exactly "<PRE> " intro prefix " <SUF>" truncated-suffix " <MID>";
\* the StarCoder test comes first, then the Llama-code test, then the exact
\* match of the instruct model, so llama-code-13b-instruct gets the Llama-code
\* template and only mistral-7b-instruct-4k the instruct one.
C17_InfillingTemplates ==
    (promptPc = "done" /\ prompt[1] # <<>>) =>
        \E k \in 0..Len(snippets) :
            IF model \in StarCoderModels
            THEN prompt[1] =
                    FimFilename \o asRelativePath(options.document.fileName)
                        \o FimPrefix \o IntroOfPass(k) \o options.docContext.prefix
                        \o FimSuffix
                        \o getSuffixAfterFirstNewline(options.docContext.suffix)
                        \o FimMiddle
            ELSE IF model \in LlamaCodeModels
            THEN prompt[1] =
                    LlamaPre \o IntroOfPass(k) \o options.docContext.prefix
                        \o LlamaSuf
                        \o getSuffixAfterFirstNewline(options.docContext.suffix)
                        \o LlamaMid
            ELSE /\ model = M_mistral_7b_instruct_4k
                 /\ StartsWith(prompt[1], InstHead)

\* llama-code-13b-instruct was given the Llama-code template, with one snippet
\* in the intro
C17_Witness ==
    /\ promptPc = "done"
    /\ model = M_llama_code_13b_instruct
    /\ snippets = <<FileSnippet>>
    /\ StartsWith(prompt[1], LlamaPre)
    /\ Includes(prompt[1], RefIntroHead)
    /\ EndsWith(prompt[1], LlamaMid)

\* where the intro starts in a prompt of the model's family
IntroOffset ==
    IF isStarCoderFamily(model)
    THEN Len(FimFilename \o asRelativePath(options.document.fileName) \o FimPrefix)
    ELSE IF isLlamaCode(model) THEN Len(LlamaPre)
    ELSE Len(InstHead \o asRelativePath(options.document.fileName) \o InstBody)

\* the prompt of the request with nothing in the place of the intro
BarePrompt ==
    createInfillingPrompt(model, options, asRelativePath(options.document.fileName),
        <<>>, options.docContext.prefix,
        getSuffixAfterFirstNewline(options.docContext.suffix))

\* the intro block of the prompt p built for the request
IntroBlockOf(p) == SubSeq(p, IntroOffset + 1, IntroOffset + Len(p) - Len(BarePrompt))

\* createPrompt returned the candidate of the pass that includes no snippet
NoSnippetIncluded ==
    /\ promptPc = "done"
    /\ prompt[1] # <<>>
    /\ prompt[1] = candidateOf(model, options, snippets, 0)

\* the comment prefix of the request's language
CommentPrefix ==
    IF getLanguageConfig(options.document.languageId) # Undefined
    THEN getLanguageConfig(options.document.languageId)[1].commentStart
    ELSE DefaultComment

\* C18 (as claimed): when no snippet is included in the prompt, because the
\* snippet list is empty or because none fits, the intro block placed in the
\* prompt is the empty string.
C18_NoSnippetEmptyIntro ==
    NoSnippetIncluded => IntroBlockOf(prompt[1]) = <<>>

\* C18 (amended): when no snippet is included in the prompt, the intro block is
\* not empty but exactly one comment line closed by a line break: the comment
\* prefix alone for a StarCoder model, and for the other families the comment
\* prefix followed by "Path: <file name>" when the language has a profile.
C18_NoSnippetOneCommentLine ==
    NoSnippetIncluded =>
        LET intro == IntroBlockOf(prompt[1])
        IN  /\ StartsWith(intro, CommentPrefix)
            /\ EndsWith(intro, NL)
            /\ IndexOf(intro, "\n") = Len(intro) - 1
            /\ isStarCoderFamily(model) => intro = CommentPrefix \o NL
            /\ (~isStarCoderFamily(model)
                    /\ getLanguageConfig(options.document.languageId) # Undefined) =>
                   intro = CommentPrefix \o PathHeader \o options.document.fileName \o NL

\* C18 witness: a StarCoder prompt was built with none of its snippets, as the
\* first one did not fit, and its intro is the line "// "
C18_Witness ==
    /\ NoSnippetIncluded
    /\ isStarCoderFamily(model)
    /\ snippets # <<>>
    /\ IntroBlockOf(prompt[1]) = <<"/", "/", " ", "\n">>

\* C19 (as claimed): for every raw output, with one or with several sentinels,
\* the post-processed text of a StarCoder model has no "<|endoftext|>" and that
\* of a Llama-code model has no " <EOT>"; for every other model the output is
\* returned unchanged.
C19_SentinelsStripped ==
    (fn = "postProcess" /\ ret # Undefined) =>
        IF model \in StarCoderModels THEN ~Includes(ret[1], EOT_STARCODER)
        ELSE IF model \in LlamaCodeModels THEN ~Includes(ret[1], EOT_LLAMA_CODE)
        ELSE ret[1] = args.content

\* the results posted to the webview come in the order of their lookups: no
\* lookup posts after a newer one has
PostsInRequestOrder ==
    \A a, b \in DOMAIN webviewPosts :
        (/\ a < b
         /\ webviewPosts[a].type = "userContextFiles"
         /\ webviewPosts[b].type = "userContextFiles") =>
            webviewPosts[a].lookup <= webviewPosts[b].lookup

\* the token of every lookup still searching when a newer lookup has begun is
\* cancelled
PreviousLookupsCancelled ==
    \A i, j \in DOMAIN lookups :
        (i < j /\ lookups[i].pc = "searching") => lookups[i].isCancellationRequested

\* C20 (as claimed): context-file lookup is last-request-wins: in every
\* interleaving of overlapping getUserContext lookups, once the newest lookup
\* has posted its results no older lookup posts afterwards, and a fresh lookup
\* cancels the token of every previous lookup still in flight.
C20_LastRequestWins == PostsInRequestOrder /\ PreviousLookupsCancelled

\* how many items of sample i are in a list of completions
ItemsOf(list, i) == Cardinality({k \in 1..Len(list) : list[k] = i})

AllFetchesSettled ==
    /\ Len(fetches) = options.n
    /\ \A i \in DOMAIN fetches : fetches[i].status # "inflight"

\* C22: generateCompletions settles only after every one of the n sample
\* fetches has settled or been cancelled, never while one is in flight, and it
\* does settle once they all have.
C22_SettlesAfterAllFetches ==
    /\ []((gc \in {"resolved", "rejected"} /\ ~ZeroTimeoutReturn) => AllFetchesSettled)
    /\ ((gc = "awaiting" /\ AllFetchesSettled) ~> (gc \in {"resolved", "rejected"}))

\* C22 witness: of two fetches one ran to its end and the other was cancelled,
\* and generateCompletions resolved after both
C22_Witness ==
    /\ gc = "resolved"
    /\ options.n = 2
    /\ fetches[1].status = "done"
    /\ fetches[2].status = "aborted"

\* the calls of a given name in the call log
CallsNamed(name) == {k \in 1..Len(calls) : calls[k].call = name}

\* generateCompletions has dispatched its fetches
Dispatched == gc \in {"awaiting", "resolved", "rejected"} /\ ~ZeroTimeoutReturn

\* C23: when the resolved timeout is not zero exactly n fetch operations are
\* started, all handed the one abort signal and the one request parameters
\* object (prompt, model, timeout, max tokens, stop sequences), through the one
\* entry point; the request parameters are not modified once dispatched.
C23_DispatchExactlyN ==
    /\ [](Dispatched =>
            /\ Len(fetches) = options.n
            /\ Cardinality(CallsNamed("fetchAndProcessCompletionsImpl")) = options.n
            /\ \A i \in DOMAIN fetches :
                  /\ fetches[i].abortSignal = "abortSignal"
                  /\ fetches[i].requestParams = "requestParams"
                  /\ fetches[i].impl = fetches[1].impl
            /\ requestParams # Undefined
            /\ requestParams[1].timeoutMs # 0)
    /\ [][Dispatched => requestParams' = requestParams]_vars

\* C23 witness: two fetches were dispatched and one of them has delivered an
\* item since
C23_Witness ==
    /\ gc = "awaiting"
    /\ options.n = 2
    /\ Len(fetches) = 2
    /\ fetches[2].delivered = 1
    /\ requestParams # Undefined

\* the calls of onCompletionReadyImpl made before call k of the log
DeliveriesBefore(k) ==
    {j \in 1..(k - 1) : calls[j].call = "onCompletionReadyImpl"}

\* C24: with a tracer attached and a resolved timeout that is not zero,
\* tracer.params is called exactly once, before any fetch is dispatched, with
\* the parameters the fetches carry; tracer.result is called exactly when the
\* aggregated list reaches n entries, once, with that list and just before
\* onCompletionReady; it is not called when onCompletionReady is not.
C24_TracerOrdering ==
    (tracer /\ Dispatched) =>
        /\ Cardinality(CallsNamed("tracer.params")) = 1
        /\ \A p \in CallsNamed("tracer.params") :
              \A f \in CallsNamed("fetchAndProcessCompletionsImpl") : p < f
        /\ tracerLog[1] = [call |-> "params", arg |-> requestParams[1]]
        /\ Cardinality(CallsNamed("tracer.result")) <= 1
        /\ Cardinality(CallsNamed("tracer.result")) =
              Cardinality(CallsNamed("onCompletionReady"))
        /\ (Len(completions) >= options.n) <=> (CallsNamed("tracer.result") # {})
        /\ \A r \in CallsNamed("tracer.result") :
              /\ Cardinality(DeliveriesBefore(r)) = options.n
              /\ calls[r - 1].call = "onCompletionReadyImpl"
              /\ r < Len(calls)
              /\ calls[r + 1].call = "onCompletionReady"
              /\ Len(tracerLog) = 2
              /\ tracerLog[2] = [call |-> "result", arg |-> readyCalls[1]]
              /\ Len(readyCalls[1]) = options.n

\* C24 witness: with a tracer and n = 2 the list reached two entries and then a
\* third, and the tracer was given the parameters and one result
C24_Witness ==
    /\ tracer
    /\ options.n = 2
    /\ Len(completions) = 3
    /\ Len(tracerLog) = 2
    /\ tracerLog[2].call = "result"
    /\ Cardinality(CallsNamed("onCompletionReady")) = 1

\* the candidates built with the first 0, 1, ..., k snippets are all below the
\* budget
FitsUpTo(k) ==
    \A j \in 0..k : Len(candidateOf(model, options, snippets, j)) < promptChars

\* C25: the returned prompt is the candidate built from the first k snippets,
\* k being the largest number for which the candidates of 0..k snippets are all
\* below the budget: packing stops at the first snippet whose candidate meets
\* or exceeds the budget, and the snippets included are a leading run of the
\* list.
C25_GreedyPacking ==
    (promptPc = "done" /\ FitsUpTo(0)) =>
        \E k \in 0..Len(snippets) :
            /\ FitsUpTo(k)
            /\ k < Len(snippets) => ~FitsUpTo(k + 1)
            /\ prompt[1] = candidateOf(model, options, snippets, k)

\* C25 witness: the first snippet did not fit and packing stopped there,
\* although the second snippet alone would have fitted
C25_Witness ==
    /\ promptPc = "done"
    /\ Len(snippets) = 2
    /\ FitsUpTo(0)
    /\ ~FitsUpTo(1)
    /\ prompt[1] = candidateOf(model, options, snippets, 0)
    /\ Len(candidateOf(model, options, <<snippets[2]>>, 1)) < promptChars

\* the panels that are registered with the provider and not disposed
RegisteredPanels ==
    {i \in DOMAIN panels : panels[i].registered /\ ~panels[i].disposed}

\* the panels createWebviewPanel has created and that are not disposed
CreatedPanels ==
    {i \in DOMAIN panels :
        /\ ~panels[i].disposed
        /\ \E c \in DOMAIN panelCalls :
              /\ panelCalls[c].fn \in {"createWebviewPanel", "setWebviewView"}
              /\ panelCalls[c].panel = i
              /\ panelCalls[c].pc # "threw"}

\* C26 (as claimed): in every interleaving of createWebviewPanel, revive and
\* panel disposal, overlapping createWebviewPanel calls included, at most one
\* webview panel is created and registered per provider at any time, and the
\* provider's panel field names the registered panel; registering while one is
\* registered does not replace it.
C26_PanelUniqueness ==
    /\ Cardinality(RegisteredPanels) <= 1
    /\ Cardinality(CreatedPanels) <= 1
    /\ webviewPanel # Undefined => RegisteredPanels = {webviewPanel[1]}

\* the lines of the intro accumulated for the pass that includes the first k
\* snippets: the blocks joined by an empty line and split at the line breaks
AccumulatedIntroLines(k) ==
    Split(Join(initialIntro(model, options) \o [j \in 1..k |-> snippetIntro(snippets[j])],
               <<"\n", "\n">>),
          "\n")

\* C27 (as claimed): every line L of the accumulated intro (Path header and
\* snippet blocks) is in the prompt as the comment prefix followed by L, the
\* prefix being the one of the language profile, or "// " when the language has
\* no profile; the text of no intro line is dropped.
C27_IntroLinesCommented ==
    (promptPc = "done" /\ prompt[1] # <<>>) =>
        \E k \in 0..Len(snippets) :
            /\ prompt[1] = candidateOf(model, options, snippets, k)
            /\ LET lines == AccumulatedIntroLines(k)
               IN  IntroBlockOf(prompt[1]) =
                       Join([i \in 1..Len(lines) |-> CommentPrefix \o lines[i]], NL) \o NL

\* the samples of the deliveries logged so far, in arrival order
ArrivalsOf(log) ==
    LET RECURSIVE arrivals(_)
        arrivals(k) ==
            IF k = 0 THEN <<>>
            ELSE IF log[k].call = "onCompletionReadyImpl"
            THEN Append(arrivals(k - 1), log[k].sample)
            ELSE arrivals(k - 1)
    IN  arrivals(Len(log))

\* the arrivals with the j-th and the k-th delivery exchanged
Exchanged(list, j, k) ==
    [x \in 1..Len(list) |->
        IF x = j THEN list[k] ELSE IF x = k THEN list[j] ELSE list[x]]

\* how many items of each sample are among the first count arrivals
PassedOf(list, count) ==
    [i \in DOMAIN fetches |-> ItemsOf(SubSeq(list, 1, count), i)]

\* C28 (as claimed): aggregation loses no update and is insensitive to order:
\* after k deliveries the results list holds exactly those k items in arrival
\* order, and the items passed to onCompletionReady are the same whatever the
\* order in which the deliveries arrived (exchanging two arrivals does not
\* change which items are passed).
C28_OrderInsensitive ==
    /\ completions = ArrivalsOf(calls)
    /\ (readyCalls # <<>> /\ ~ZeroTimeoutReturn) =>
          /\ readyCalls[1] = SubSeq(completions, 1, options.n)
          /\ \A j \in 1..Len(completions) : \A k \in 1..Len(completions) :
                PassedOf(Exchanged(completions, j, k), options.n) =
                    PassedOf(completions, options.n)

\* C29 (as claimed): whenever onCompletionReady is invoked with n items, the
\* items come from n distinct sample fetches, each sample having contributed
\* exactly one, also when the pipeline of one sample delivers several items or
\* none.
C29_OneItemPerSample ==
    \A k \in 1..Len(readyCalls) :
        Len(readyCalls[k]) = options.n =>
            /\ SamplesIn(readyCalls[k]) = 1..options.n
            /\ \A i \in 1..options.n : ItemsOf(readyCalls[k], i) = 1

\* the models of the three families createInfillingPrompt has a template for
ModelsWithTemplate ==
    StarCoderModels \cup LlamaCodeModels \cup {M_mistral_7b_instruct_4k}

\* the provider's model is in no family: it has neither family prefix and is
\* not the instruct model
InNoFamily(m) ==
    /\ \/ Len(m) < Len(STARCODER_PREFIX)
       \/ SubSeq(m, 1, Len(STARCODER_PREFIX)) # STARCODER_PREFIX
    /\ \/ Len(m) < Len(LLAMA_CODE_PREFIX)
       \/ SubSeq(m, 1, Len(LLAMA_CODE_PREFIX)) # LLAMA_CODE_PREFIX
    /\ m # M_mistral_7b_instruct_4k

\* C30: for a model in no known family createInfillingPrompt returns exactly
\* intro + prefix, without the suffix and without infilling markers, and
\* returns it as a string (the request does not fail); a provider made by
\* createProviderConfig never takes this fallback: every model string it
\* accepts resolves to a model of the StarCoder, Llama-code or instruct
\* family, and every other string makes it throw before a provider exists.
C30_UnknownModelFallback ==
    /\ (fn = "createInfillingPrompt" /\ ret # Undefined /\ InNoFamily(model)) =>
          ret[1] = args.intro \o args.prefix
    /\ (fn = "createInfillingPrompt" /\ args.via = "createProviderConfig") =>
          /\ createProviderConfig(args.model, timeouts).error = Undefined
          /\ model \in ModelsWithTemplate
          /\ ~InNoFamily(model)
          /\ ret # Undefined =>
                /\ Len(ret[1]) > Len(args.intro \o args.prefix)
                /\ \/ StartsWith(ret[1], FimFilename)
                   \/ StartsWith(ret[1], LlamaPre)
                   \/ StartsWith(ret[1], InstHead)
    /\ (fn = "createProviderConfig" /\ ret # Undefined) =>
          /\ ret[1].error # Undefined
          /\ args.model[1] \notin ModelsWithTemplate

\* C30 witness: a provider constructed with the model "gpt-4" returned
\* intro + prefix for a request with a suffix
C30_Witness ==
    /\ fn = "createInfillingPrompt"
    /\ args.via = "constructor"
    /\ model = Str_gpt_4
    /\ args.intro # <<>>
    /\ args.prefix # <<>>
    /\ args.suffix # <<>>
    /\ ret = Some(args.intro \o args.prefix)

\* C31: the token budget comes from the fixed table of getMaxContextTokens and
\* is 1200 for a model that is not in the table; every model string
\* createProviderConfig accepts has the budget 2048, so a provider made by the
\* factory never has the 1200 default and has
\* promptChars = tokensToChars(2048 - 256).
C31_ContextWindowBudget ==
    /\ args.model # Null =>
          getMaxContextTokens(args.model[1]) =
              IF args.model[1] \in FireworksModel THEN 2048 ELSE 1200
    /\ (fn = "createInfillingPrompt" /\ args.via = "createProviderConfig") =>
          /\ getMaxContextTokens(model) = 2048
          /\ createProviderConfig(args.model, timeouts).config[1].maxContextTokens = 2048
          /\ promptChars = (2048 - 256) * 4

\* C31 witness: the factory made a provider of the instruct model, whose budget
\* is the last entry of the table, with 7168 prompt characters; and a string
\* that is not in the table has the budget 1200
C31_Witness ==
    /\ fn = "createInfillingPrompt"
    /\ args.via = "createProviderConfig"
    /\ model = M_mistral_7b_instruct_4k
    /\ promptChars = 7168
    /\ getMaxContextTokens(Str_gpt_4) = 1200

\* C32: for every configuration of the timeout overrides with values that are
\* unset, 0 or positive, and every combination of the flags, the timeout
\* resolved by generateCompletions is strictly positive: the zero-timeout
\* return is never taken, onCompletionReady is not called with the empty list
\* and n fetches are dispatched.
C32_ResolvedTimeoutPositive ==
    /\ resolvedRequestParams(model, options, timeouts, <<>>).timeoutMs > 0
    /\ gc # "idle" =>
          /\ ~ZeroTimeoutReturn
          /\ requestParams[1].timeoutMs > 0
          /\ gc = "awaiting"
          /\ readyCalls = <<>>
          /\ Len(fetches) = options.n

\* C32 witness: a single-line request whose single-line override is 0 was
\* dispatched to two fetches with the preset's timeout
C32_Witness ==
    /\ gc = "awaiting"
    /\ ~useExtendedGenerationOf(options)
    /\ timeouts.singleline = Some(0)
    /\ options.n = 2
    /\ Len(fetches) = 2
    /\ requestParams[1].timeoutMs = 5000

\* how many times the remote lookup was made for a codebase
RemoteCallsFor(codebase) ==
    Cardinality({k \in 1..Len(remoteCalls) : remoteCalls[k] = codebase})

\* C33: the repository-id lookup is memoized per codebase string: over every
\* sequence and interleaving of createCodebaseContext calls the remote
\* getRepoId is called at most once for a codebase that is not empty
\* (concurrent calls share the one pending lookup) and never for the empty
\* codebase; a lookup that returned an error stays cached and is not retried;
\* a context made from an error or a null id has no embeddings search client.
C33_RepoIdMemoized ==
    /\ [](/\ \A codebase \in Codebases : RemoteCallsFor(codebase) <= 1
          /\ RemoteCallsFor(<<>>) = 0
          /\ \A k \in DOMAIN contextCalls :
                /\ contextCalls[k].codebase \in DOMAIN repoIdCache
                /\ contextCalls[k].pc = "returned" =>
                      (contextCalls[k].embeddingsSearch = "client"
                          <=> repoIdCache[contextCalls[k].codebase] = "id"))
    /\ [][\A codebase \in DOMAIN repoIdCache :
             repoIdCache[codebase] # "pending" =>
                 /\ codebase \in DOMAIN repoIdCache'
                 /\ repoIdCache'[codebase] = repoIdCache[codebase]
                 /\ RemoteCallsFor(codebase)' = RemoteCallsFor(codebase)]_vars

\* C33 witness: three calls for one codebase made one remote lookup between
\* them, which returned an error, and none of the three contexts has an
\* embeddings search client
C33_Witness ==
    /\ Len(contextCalls) = 3
    /\ \A k \in 1..3 :
          /\ contextCalls[k].codebase = <<"a">>
          /\ contextCalls[k].pc = "returned"
          /\ contextCalls[k].embeddingsSearch = "null"
    /\ repoIdCache[<<"a">>] = "error"
    /\ remoteCalls = << <<"a">> >>

\* the chat requests that are live: started, without a final callback, and not
\* cancelled
LiveRequests ==
    {r \in DOMAIN chatRequests :
        chatRequests[r].status = "running" /\ chatRequests[r].cancels = 0}

\* the requests whose canceller is invoked in a step
CancelledInStep ==
    {r \in DOMAIN chatRequests : chatRequests'[r].cancels > chatRequests[r].cancels}

\* C34 (as claimed): at most one chat completion is live; sendLLMRequest
\* invokes the stored canceller of the previous request before it stores the
\* new one; after cancelInProgressCompletion no canceller that was invoked is
\* stored, so that a canceller is invoked at most once; onComplete of the
\* current request clears the stored canceller without invoking it.
C34_OneLiveCompletion ==
    /\ [](/\ Cardinality(LiveRequests) <= 1
          /\ \A r \in DOMAIN chatRequests : chatRequests[r].cancels <= 1)
    /\ [][/\ \A r \in CancelledInStep :
                completionCanceller = Some(r) /\ completionCanceller' # Some(r)
          /\ (completionCanceller # Undefined /\ completionCanceller' # Undefined
                  /\ completionCanceller' # completionCanceller) =>
                CancelledInStep = {completionCanceller[1]}
          /\ \A r \in DOMAIN chatRequests :
                (/\ completionCanceller = Some(r)
                 /\ chatRequests[r].status = "running"
                 /\ chatRequests'[r].status = "guardrails") =>
                    /\ completionCanceller' = Undefined
                    /\ CancelledInStep = {}]_vars

\* C35 (as claimed): a superseded chat request cannot affect its successor:
\* when request B was started by sendLLMRequest while request A was in
\* progress, a late onError or onComplete of A neither invokes nor clears the
\* canceller of B: B stays running, and stays cancellable by the abort command
\* for as long as it has no final callback of its own.
C35_SupersededRequestHarmless ==
    [][\A a \in DOMAIN chatRequests : \A b \in DOMAIN chatRequests :
          (/\ a # b
           /\ completionCanceller = Some(b)
           /\ chatRequests[a].status = "running"
           /\ chatRequests'[a].status # "running") =>
              /\ completionCanceller' = Some(b)
              /\ chatRequests'[b].cancels = chatRequests[b].cancels
              /\ b \in LiveRequests => b \in LiveRequests']_vars


\* Whether message m, kept in the session with the given id, is a bot message
\* (not an error shown as one) answering a request of another session.
ForeignBotMessage(m, id) ==
    /\ m.speaker = "assistant"
    /\ ~m.error
    /\ m.request \in DOMAIN chatRequests
    /\ chatRequests[m.request].session # id

\* C36 (as claimed): a bot message is only appended to the chat session whose
\* human message triggered the request, for every interleaving of the close
\* callback (with its asynchronous guardrails step) or the error callback with
\* restoreSession or clearAndRestartSession: neither the current chat model
\* nor a saved session holds a bot message of a request submitted in another
\* session.
C36_BotMessageInOwnSession ==
    /\ \A i \in DOMAIN chatModel.messages :
          ~ForeignBotMessage(chatModel.messages[i], chatModel.sessionID)
    /\ \A id \in DOMAIN history : \A i \in DOMAIN history[id] :
          ~ForeignBotMessage(history[id][i], id)


\* Whether the step adds a restoreSession call for an id the history holds
\* (known = TRUE) or does not hold (known = FALSE).
RestoreStarts(known) ==
    /\ Len(sessionCalls') = Len(sessionCalls) + 1
    /\ sessionCalls'[Len(sessionCalls')].fn = "restoreSession"
    /\ (sessionCalls'[Len(sessionCalls')].id \in DOMAIN history) = known

\* C37 (as claimed): restoreSession with an id that is not in the history is a no-op: chat
\* model, session id, completion in progress and requests are unchanged and
\* nothing is posted to the webview, and the call has returned; with an id of
\* the history it cancels the completion in progress (the stored canceller is
\* invoked once and cleared) and, when its await ends, the session id is the
\* restored one and the chat model holds the saved messages of that session,
\* in their order.
C37_RestoreSession ==
    [][/\ RestoreStarts(FALSE) =>
             /\ UNCHANGED <<chatModel, sessionID, completionCanceller, chatRequests,
                            history, initDoer, webviewMessages>>
             /\ sessionCalls'[Len(sessionCalls')].pc = "returned"
       /\ RestoreStarts(TRUE) =>
             /\ completionCanceller' = Undefined
             /\ \A r \in DOMAIN chatRequests :
                   chatRequests'[r].cancels =
                       chatRequests[r].cancels
                           + (IF completionCanceller = Some(r) THEN 1 ELSE 0)
             /\ LiveRequests' = {}
             /\ sessionCalls'[Len(sessionCalls')].pc = "awaiting"
       /\ \A c \in DOMAIN sessionCalls :
             (/\ sessionCalls[c].fn = "restoreSession"
              /\ sessionCalls[c].pc = "awaiting"
              /\ sessionCalls'[c].pc = "done") =>
                 /\ chatModel'.sessionID = sessionCalls[c].id
                 /\ sessionID' = sessionCalls[c].id
                 /\ \A i \in DOMAIN sessionCalls[c].transcript :
                       /\ i \in DOMAIN chatModel'.messages
                       /\ chatModel'.messages[i].request =
                              sessionCalls[c].transcript[i].request]_vars

\* C38 (as claimed): every message sent to the webview goes through
\* postMessage and is held until initialization has been signalled: no message
\* reaches the webview by a direct call outside postMessage, and none reaches
\* it before onInitialized has signalled initialization.
C38_MessagesHeldUntilInitialized ==
    \A i \in DOMAIN webviewMessages :
        /\ ~webviewMessages[i].direct
        /\ webviewMessages[i].initialized

\* the panels closed in a step
ClosedInStep == {i \in DOMAIN panels : ~panels[i].disposed /\ panels'[i].disposed}

\* C39 (as claimed): closing the webview panel cancels the chat completion in progress (its
\* canceller is invoked and no canceller stays stored) and clears the panel and
\* the webview reference, so that afterwards no completion is live and
\* registerWebviewPanel passes its test for a new panel instead of throwing.
C39_PanelClose ==
    [][ClosedInStep # {} =>
          /\ \A r \in DOMAIN chatRequests :
                chatRequests'[r].cancels =
                    chatRequests[r].cancels
                        + (IF completionCanceller = Some(r) THEN 1 ELSE 0)
          /\ completionCanceller' = Undefined
          /\ LiveRequests' = {}
          /\ webviewPanel' = Undefined
          /\ webview' = Undefined
          /\ registerWebviewPanelStart(webviewPanel', webview') = "addWebviewViewHTML"]_vars

\* whether the source's items are among the returned ones
Returned(source) == \E i \in DOMAIN ret[1].items : ret[1].items[i].source = source

\* C40 (as claimed): getEnhancedContext throws if and only if the local and the
\* remote embeddings search both fail; when exactly one fails the results of
\* the other are returned; the symf search runs only when neither embeddings
\* search returned a result and symf is configured; a symf failure alone does
\* not fail the call.
C40_EnhancedContextFailure ==
    (fn = "getEnhancedContext" /\ ret # Undefined) =>
        /\ ret[1].threw <=> (args.local = "fails" /\ args.remote = "fails")
        /\ (args.local = "fails" /\ args.remote \in {"items", "readme"}) =>
              Returned("remote")
        /\ (args.remote = "fails" /\ args.local \in {"items", "readme"}) =>
              Returned("local")
        /\ ret[1].symfRan =>
              /\ args.local \notin {"items", "readme"}
              /\ args.remote \notin {"items", "readme"}
              /\ args.symf # "unconfigured"
        /\ (args.symf = "fails" /\ ~(args.local = "fails" /\ args.remote = "fails")) =>
              ~ret[1].threw

====
